---- MODULE Spec2Model ----
(***************************************************************************)
(* A model of the widgetkit MCP endpoint: the SvelteKit handle built by   *)
(* handleMCP (src/lib/mcp/index.ts), the per-request MCPHandler table      *)
(* (src/lib/mcp/handler.ts) and the capability records it dispatches to   *)
(* (tools.ts, resources.ts, prompts, widget).                              *)
(*                                                                         *)
(* JavaScript values are tagged records (field t).  Strings the code      *)
(* takes apart (URIs, widget ids) are sequences of characters; strings it *)
(* only carries are TLA+ strings.  Each await of the code is a step.      *)
(***************************************************************************)
EXTENDS Integers, Sequences, FiniteSets, TLC

\* Largest number of capabilities (tools, prompts, resources and widgets
\* together) registered on the server under test.
MaxEntries == 3

(***************************************************************************)
(* String primitives of the JavaScript runtime, on character sequences.    *)
(***************************************************************************)
StartsWith(s, p) == Len(s) >= Len(p) /\ SubSeq(s, 1, Len(p)) = p

\* String.prototype.indexOf: the first position of p in s, 0 when absent.
IndexOf(s, p) ==
  LET hits == {i \in 1..(Len(s) + 1) :
                 i + Len(p) - 1 <= Len(s) /\ SubSeq(s, i, i + Len(p) - 1) = p}
  IN IF hits = {} THEN 0 ELSE CHOOSE i \in hits : \A j \in hits : i <= j

Includes(s, p) == IndexOf(s, p) # 0

\* String.prototype.split with a non-empty separator.
RECURSIVE Split(_, _)
Split(s, sep) ==
  LET i == IndexOf(s, sep)
  IN IF i = 0 THEN <<s>>
     ELSE <<SubSeq(s, 1, i - 1)>> \o Split(SubSeq(s, i + Len(sep), Len(s)), sep)

\* /\{[^{}]*\}/.test(uri): an opening brace closed with no brace in between.
isTemplate(uri) ==
  \E i \in 1..Len(uri) : \E j \in (i + 1)..Len(uri) :
     /\ uri[i] = "{"
     /\ uri[j] = "}"
     /\ \A k \in (i + 1)..(j - 1) : uri[k] \notin {"{", "}"}

WidgetScheme == <<"w", "i", "d", "g", "e", "t", ":", "/", "/">>
DoubleSlash == <<"/", "/">>
Dot == <<".">>

(***************************************************************************)
(* Error taxonomy (errors.ts).  The numeric codes live in types/spec; a    *)
(* code is modelled by the name of its constant.                           *)
(***************************************************************************)
MCPErrorCode ==
  {"PARSE_ERROR", "RESOURCE_NOT_FOUND", "INVALID_REQUEST",
   "METHOD_NOT_FOUND", "INVALID_PARAMS", "INTERNAL_ERROR"}

defaultErrorMessages ==
  [PARSE_ERROR |-> "Parse error",
   RESOURCE_NOT_FOUND |-> "Resource not found",
   INVALID_REQUEST |-> "Invalid request",
   METHOD_NOT_FOUND |-> "Method not found",
   INVALID_PARAMS |-> "Invalid parameters",
   INTERNAL_ERROR |-> "Internal error"]

NoData == "undefined"

MCPError(code, message, data) ==
  [t |-> "MCPError", code |-> code, message |-> message, data |-> data]

\* mcpError(code, message?, data?): message || defaultErrorMessages[code].
mcpError3(code, message, data) ==
  MCPError(code, IF message \in {"", "undefined"} THEN defaultErrorMessages[code]
                 ELSE message, data)

mcpError(code) == mcpError3(code, "undefined", NoData)

isMCPError(v) == v.t = "MCPError"

(***************************************************************************)
(* Metadata maps.  A map is a function on MetaKeys; Absent marks a key the *)
(* object does not have.  Spread {...a, ...b} keeps b's value on conflict. *)
(***************************************************************************)
Absent == <<"<absent>">>

MetaKeys ==
  {"openai/outputTemplate", "openai/toolInvocation/invoking",
   "openai/toolInvocation/invoked", "openai/widgetAccessible",
   "openai/resultCanProduceWidget", "version"}

EmptyMeta == [k \in MetaKeys |-> Absent]

MetaOf(pairs) ==
  [k \in MetaKeys |-> IF k \in DOMAIN pairs THEN pairs[k] ELSE Absent]

Spread(a, b) == [k \in MetaKeys |-> IF b[k] # Absent THEN b[k] ELSE a[k]]

(***************************************************************************)
(* Widget (widget.ts).                                                     *)
(***************************************************************************)
NoWidget == [t |-> "undefined"]

Widget(id, name, invoking, invoked) ==
  [t |-> "Widget", id |-> id,
   options |-> [name |-> name, invoking |-> invoking, invoked |-> invoked,
                description |-> "", prefersBorder |-> FALSE]]

WidgetUri(id) == WidgetScheme \o id \o <<".", "j", "s">>

toolMetadata(w) ==
  MetaOf(("openai/outputTemplate" :> WidgetUri(w.id))
         @@ ("openai/toolInvocation/invoking" :> <<w.options.invoking>>)
         @@ ("openai/toolInvocation/invoked" :> <<w.options.invoked>>)
         @@ ("openai/widgetAccessible" :> <<"false">>)
         @@ ("openai/resultCanProduceWidget" :> <<"true">>))

(***************************************************************************)
(* JavaScript values a handler can return or throw.                        *)
(***************************************************************************)
Undefined == [t |-> "undefined"]
Str(s) == [t |-> "string", s |-> s]
Obj(tag) == [t |-> "object", tag |-> tag]
Num(n) == [t |-> "number", n |-> n]
Binary(class) == [t |-> class]
Error(message) == [t |-> "Error", message |-> message]

\* err instanceof Error: MCPError extends Error, ToolError does not.
instanceofError(v) == v.t \in {"Error", "MCPError"}

\* result instanceof Blob / ArrayBuffer / File / Uint8Array (File extends Blob).
isBinary(v) == v.t \in {"Blob", "File", "ArrayBuffer", "Uint8Array"}

Return(v) == [k |-> "return", v |-> v]
Throw(v) == [k |-> "throw", v |-> v]

\* A text held as it is, and the text safeStringify(value) makes of a value.
Text(s) == [str |-> s]
safeStringify(v) == [json |-> v]

\* A MIME type "major/sub" is the pair of its two parts.
Mime(major, sub) == <<major, sub>>
NoMime == <<>>

\* toDataUrl(data, mimeType): a string is returned as it is, bytes become
\* `data:${mimeType};base64,${btoa(binary)}`.
toDataUrl(data, mimeType) ==
  IF data.t = "string" THEN Text(data.s)
  ELSE [dataUrl |-> [mimeType |-> mimeType, bytes |-> data]]

(***************************************************************************)
(* Tool (tools.ts).  In a CallToolResult isError = FALSE and hasMeta =     *)
(* FALSE stand for the key being absent.                                   *)
(***************************************************************************)
CallToolResult(content, isError, hasMeta, meta, hasStructured, structured) ==
  [t |-> "CallToolResult", content |-> content, isError |-> isError,
   hasMeta |-> hasMeta, _meta |-> meta,
   hasStructured |-> hasStructured, structuredContent |-> structured]

TextBlock(text) == [type |-> "text", text |-> text]

\* class ToolError and its result getter.
ToolError(message) == [t |-> "ToolError", message |-> message]

ToolErrorResult(e) ==
  CallToolResult(
    <<TextBlock(Text(IF e.message \in {"", "undefined"}
                     THEN "An error occurred during tool execution"
                     ELSE e.message))>>,
    TRUE, FALSE, EmptyMeta, FALSE, Undefined)

\* class BlobResult: result is a promise of the content block.
BlobResult(data, mimeType, hasMeta, meta) ==
  [t |-> "BlobResult", data |-> data, mimeType |-> mimeType,
   hasMeta |-> hasMeta, _meta |-> meta]

BlobResultResolved(b) ==
  CallToolResult(
    <<[type |-> IF b.mimeType[1] = "audio" THEN "audio" ELSE "image",
       mimeType |-> b.mimeType,
       data |-> toDataUrl(b.data, b.mimeType)]>>,
    FALSE, b.hasMeta, IF b.hasMeta THEN b._meta ELSE EmptyMeta, FALSE, Undefined)

\* class ResourceResult: result holds the resource_link block.
ResourceResult(uri, name, mimeType) ==
  [t |-> "ResourceResult",
   result |-> CallToolResult(
     <<[type |-> "resource_link", name |-> name, uri |-> uri,
        mimeType |-> mimeType]>>,
     FALSE, FALSE, EmptyMeta, FALSE, Undefined)]

NoSchema == [t |-> "undefined"]
Schema(kind) == [t |-> "schema", kind |-> kind]

ToolConfig(description, schema, output, hasHandler, hasMeta, meta, widget) ==
  [description |-> description, schema |-> schema, output |-> output,
   hasHandler |-> hasHandler, hasMeta |-> hasMeta, meta |-> meta,
   widget |-> widget]

\* validateInput(schema, input) of types/standardSchema: the validator's
\* output, or the exception it raises.  A "refined" schema raises a protocol
\* error of its own on input it rejects; any other raises a validation error.
validateInput(schema, input) ==
  IF input = "good" THEN Return(Obj("validated"))
  ELSE IF schema.kind = "refined"
       THEN Throw(mcpError3("INVALID_REQUEST", "refused by schema", "arg"))
       ELSE Throw(Error("validation failed"))

\* Tool['~validate'] and Prompt['~validate'].
Validate(config, input) ==
  IF config.schema = NoSchema THEN Return(Undefined)
  ELSE validateInput(config.schema, input)

\* Faulty variant of ToolCallShape: a returned string is stringified and
\* attached like any other value.
ToolCallShape_StringAsValue(config, outcome) ==
  LET v == outcome.v IN
  IF outcome.k = "return"
  THEN IF v.t = "ToolError" THEN ToolErrorResult(v)
       ELSE IF v.t = "BlobResult" THEN v
       ELSE CallToolResult(<<TextBlock(safeStringify(v))>>, FALSE, FALSE,
                           EmptyMeta, config.output, IF config.output THEN v
                                                     ELSE Undefined)
  ELSE IF v.t = "ToolError" THEN ToolErrorResult(v)
       ELSE ToolErrorResult(ToolError(
              IF instanceofError(v)
              THEN (IF v.message = "" THEN "Unknown error" ELSE v.message)
              ELSE "Unknown error"))

\* Faulty variant of ToolCallShape: the catch block drops the exception's message.
ToolCallShape_GenericMessage(config, outcome) ==
  LET v == outcome.v IN
  IF outcome.k = "return"
  THEN IF v.t = "ToolError" THEN ToolErrorResult(v)
       ELSE IF v.t = "BlobResult" THEN v
       ELSE IF v.t = "string"
            THEN CallToolResult(<<TextBlock(Text(v.s))>>, FALSE, FALSE,
                                EmptyMeta, FALSE, Undefined)
       ELSE CallToolResult(<<TextBlock(safeStringify(v))>>, FALSE, FALSE,
                           EmptyMeta, config.output, IF config.output THEN v
                                                     ELSE Undefined)
  ELSE IF v.t = "ToolError" THEN ToolErrorResult(v)
       ELSE ToolErrorResult(ToolError("Unknown error"))

\* Tool['~call'], from the handler's settling on: the shaping of what the
\* handler returned (try block) or threw (catch block).  A BlobResult is
\* returned as it is: its promise is awaited in a step of its own.
ToolCallShape(config, outcome) ==
  LET v == outcome.v IN
  IF outcome.k = "return"
  THEN IF v.t = "ToolError" THEN ToolErrorResult(v)
       ELSE IF v.t = "BlobResult" THEN v
       ELSE IF v.t = "string"
            THEN CallToolResult(<<TextBlock(Text(v.s))>>, FALSE, FALSE,
                                EmptyMeta, FALSE, Undefined)
       ELSE CallToolResult(<<TextBlock(safeStringify(v))>>, FALSE, FALSE,
                           EmptyMeta, config.output, IF config.output THEN v
                                                     ELSE Undefined)
  ELSE IF v.t = "ToolError" THEN ToolErrorResult(v)
       ELSE ToolErrorResult(ToolError(
              IF instanceofError(v)
              THEN (IF v.message = "" THEN "Unknown error" ELSE v.message)
              ELSE "Unknown error"))

\* defineTool(name, tool): the tools/list descriptor.
defineTool(name, config) ==
  [name |-> name,
   description |-> config.description,
   _meta |-> Spread(IF config.hasMeta THEN config.meta ELSE EmptyMeta,
                    IF config.widget # NoWidget THEN toolMetadata(config.widget)
                    ELSE EmptyMeta),
   outputSchema |-> IF config.output THEN [type |-> "object"] ELSE Undefined,
   inputSchema |-> [type |-> "object"]]

\* Object.entries(registry).map(...): a registry is the sequence of its
\* <<key, record>> entries in insertion order.
defineTools(tools) ==
  [i \in 1..Len(tools) |-> defineTool(tools[i][1], tools[i][2])]

(***************************************************************************)
(* Resource (resources.ts).                                                *)
(***************************************************************************)
NoUri == <<"<undefined>">>

\* `uri || other`: undefined and the empty string are falsy.
OrElse(uri, other) == IF uri \in {NoUri, <<>>} THEN other ELSE uri

ResourceConfig(name, type, uri, description, hasHandler, meta) ==
  [name |-> name, type |-> type, uri |-> uri, description |-> description,
   hasHandler |-> hasHandler, meta |-> meta]

ReadResourceResult(contents) == [t |-> "ReadResourceResult", contents |-> contents]

\* Faulty variant of ResourceCallShape: the declared type is not looked at
\* before the bytes are encoded.
ResourceCallShape_NoTypeTest(config, uri, outcome) ==
  LET v == outcome.v IN
  IF outcome.k = "throw" THEN outcome
  ELSE IF v.t = "string"
       THEN Return(ReadResourceResult(
              <<[text |-> Text(v.s), mimeType |-> config.type, uri |-> uri]>>))
  ELSE IF isBinary(v)
       THEN Return(ReadResourceResult(
              <<[text |-> toDataUrl(v, config.type),
                 mimeType |-> config.type, uri |-> uri]>>))
  ELSE Return(mcpError("RESOURCE_NOT_FOUND"))

\* Resource['~call'], from the handler's settling on.  A handler that throws
\* rejects the call; a config without handler yields undefined (handler?.()).
ResourceCallShape(config, uri, outcome) ==
  LET v == outcome.v IN
  IF outcome.k = "throw" THEN outcome
  ELSE IF v.t = "string"
       THEN Return(ReadResourceResult(
              <<[text |-> Text(v.s), mimeType |-> config.type, uri |-> uri]>>))
  ELSE IF isBinary(v)
       THEN IF config.type = NoMime
            THEN Return(mcpError3("INTERNAL_ERROR", "Resource mimeType not set",
                                  [uri |-> uri]))
            ELSE Return(ReadResourceResult(
                   <<[text |-> toDataUrl(v, config.type),
                      mimeType |-> config.type, uri |-> uri]>>))
  ELSE Return(mcpError("RESOURCE_NOT_FOUND"))

defineResource(name, config) ==
  [name |-> name, uri |-> OrElse(config.uri, name),
   description |-> config.description, mimeType |-> config.type,
   _meta |-> config.meta]

defineResourceTemplate(name, config) ==
  [name |-> name, uriTemplate |-> OrElse(config.uri, name),
   description |-> config.description, mimeType |-> config.type,
   _meta |-> config.meta]

\* Array.prototype.filter, then map, over the registry's entries.
RECURSIVE SelectEntries(_, _)
SelectEntries(entries, keepTemplates) ==
  IF entries = <<>> THEN <<>>
  ELSE LET e == Head(entries)
           rest == SelectEntries(Tail(entries), keepTemplates)
       IN IF isTemplate(OrElse(e[2].uri, <<>>)) = keepTemplates
          THEN <<e>> \o rest ELSE rest

\* Faulty variant of defineResources: templates are listed as well.
defineResources_Unfiltered(resources) ==
  [i \in 1..Len(resources) |-> defineResource(resources[i][1], resources[i][2])]

defineResources(resources) ==
  LET kept == SelectEntries(resources, FALSE)
  IN [i \in 1..Len(kept) |-> defineResource(kept[i][1], kept[i][2])]

defineResourceTemplates(resources) ==
  LET kept == SelectEntries(resources, TRUE)
  IN [i \in 1..Len(kept) |-> defineResourceTemplate(kept[i][1], kept[i][2])]

(***************************************************************************)
(* Widget as a resource (widget.ts).                                       *)
(***************************************************************************)
SkybridgeMime == Mime("text", "html+skybridge")

\* Widget.result(domain): the bootstrap document for the widget's bundle.
WidgetResult(w, domain) ==
  ReadResourceResult(
    <<[uri |-> WidgetScheme \o w.id,
       mimeType |-> SkybridgeMime,
       text |-> [html |-> [src |-> <<domain, "/widgets/", w.options.name, ".js">>]],
       _meta |-> [widgetDescription |-> IF w.options.description = ""
                                        THEN "A widget"
                                        ELSE w.options.description,
                  widgetPrefersBorder |-> w.options.prefersBorder,
                  widgetDomain |-> domain]]>>)

\* Widget.resource(domain).
WidgetResource(w, domain) ==
  ResourceConfig(w.options.name, SkybridgeMime, WidgetUri(w.id),
                 w.options.description, TRUE,
                 [widgetDescription |-> w.options.description,
                  widgetPrefersBorder |-> w.options.prefersBorder])

defineWidgets(widgets, domain) ==
  [i \in 1..Len(widgets) |->
     defineResource(widgets[i][2].id, WidgetResource(widgets[i][2], domain))]

(***************************************************************************)
(* Prompt (prompts.ts).                                                    *)
(***************************************************************************)
PromptConfig(description, schema, hasHandler) ==
  [description |-> description, schema |-> schema, hasHandler |-> hasHandler]

PromptValue(description, role, text) ==
  [t |-> "object", description |-> description, role |-> role, text |-> text]

definePrompt(name, config) ==
  [name |-> name, description |-> config.description,
   arguments |-> IF config.schema = NoSchema THEN <<>>
                 ELSE <<[name |-> "topic", description |-> "", required |-> TRUE]>>]

definePrompts(prompts) ==
  [i \in 1..Len(prompts) |-> definePrompt(prompts[i][1], prompts[i][2])]

(***************************************************************************)
(* The servers under test: every registry is a selection, in order, from  *)
(* a fixed universe, with at most MaxEntries capabilities in all.          *)
(***************************************************************************)
wAB == Widget(<<"a", "b">>, "ab", "Loading ab", "Loaded ab")
wA == Widget(<<"a">>, "a", "Loading a", "Loaded a")

WidgetUniverse == << <<"abWidget", wAB>>, <<"aWidget", wA>> >>

ToolUniverse ==
  << <<"greet", ToolConfig("Greets", Schema("plain"), FALSE, TRUE, TRUE,
                           MetaOf("version" :> <<"1.0">>), NoWidget)>>,
     <<"show", ToolConfig("Shows", Schema("refined"), TRUE, TRUE, TRUE,
                          MetaOf(("version" :> <<"2.0">>)
                                 @@ ("openai/outputTemplate" :> <<"own">>)), wA)>>,
     <<"bare", ToolConfig("Bare", NoSchema, FALSE, FALSE, FALSE, EmptyMeta, wAB)>> >>

PromptUniverse ==
  << <<"ask", PromptConfig("Asks", Schema("plain"), TRUE)>>,
     <<"tell", PromptConfig("Tells", Schema("refined"), TRUE)>> >>

ResourceUniverse ==
  << <<<<"t">>, ResourceConfig("template", NoMime, <<"f", ":", "{", "x", "}">>,
                                "undefined", TRUE, Undefined)>>,
     <<<<"p">>, ResourceConfig("plain", Mime("text", "plain"), <<"f", ":", "p">>,
                                "undefined", TRUE, Undefined)>>,
     <<<<"b">>, ResourceConfig("bare", NoMime, NoUri, "undefined", TRUE,
                                Undefined)>> >>

\* The entries of universe at the positions in idx, in the universe's order.
RECURSIVE PickFrom(_, _, _)
PickFrom(universe, idx, i) ==
  IF i > Len(universe) THEN <<>>
  ELSE (IF i \in idx THEN <<universe[i]>> ELSE <<>>)
       \o PickFrom(universe, idx, i + 1)

Selections(universe) ==
  {PickFrom(universe, idx, 1) :
     idx \in {x \in SUBSET (1..Len(universe)) : Cardinality(x) <= MaxEntries}}

Registry(entries) == [present |-> TRUE, entries |-> entries]
NoRegistry == [present |-> FALSE, entries |-> <<>>]

Servers ==
  {srv \in
     [name : {"test"}, version : {"1.0.0"}, domain : {"https://app.example"},
      tools : {NoRegistry} \cup {Registry(e) : e \in Selections(ToolUniverse)},
      prompts : {Registry(e) : e \in Selections(PromptUniverse)},
      resources : {Registry(e) : e \in Selections(ResourceUniverse)},
      widgets : {Registry(e) : e \in Selections(WidgetUniverse)}] :
     Len(srv.tools.entries) + Len(srv.prompts.entries)
       + Len(srv.resources.entries) + Len(srv.widgets.entries) <= MaxEntries}

\* `registry || {}` and Object.keys(registry).length.
EntriesOf(registry) == IF registry.present THEN registry.entries ELSE <<>>

\* registry?.[key]: the record under key, undefined when there is none.
Lookup(registry, key) ==
  LET es == EntriesOf(registry)
      hits == {i \in 1..Len(es) : es[i][1] = key}
  IN IF hits = {} THEN Undefined ELSE es[CHOOSE i \in hits : TRUE][2]

\* Array.prototype.find over Object.values(registry): the index of the
\* first record whose test (tests[i]) is satisfied, 0 when none is.
FirstIndex(tests) ==
  LET hits == {i \in 1..Len(tests) : tests[i]}
  IN IF hits = {} THEN 0 ELSE CHOOSE i \in hits : \A j \in hits : i <= j

(***************************************************************************)
(* MCPHandler (handler.ts).  A handler of the table runs to its first      *)
(* await of a capability: it has then returned a value, thrown, or is      *)
(* waiting on a call.                                                      *)
(***************************************************************************)
hasTools(server) == server.tools.present /\ Len(server.tools.entries) > 0
hasResources(server) == server.resources.present /\ Len(server.resources.entries) > 0
hasPrompts(server) == server.prompts.present /\ Len(server.prompts.entries) > 0
hasWidgets(server) == server.widgets.present /\ Len(server.widgets.entries) > 0

TypeError == Error("TypeError")
Await(call) == [k |-> "await", call |-> call]

\* Request params: undefined, or an object with the fields the handlers read.
NoParams == [t |-> "undefined"]
Params(name, arguments, uri) ==
  [t |-> "object", name |-> name, arguments |-> arguments, uri |-> uri]

\* Faulty variant of initialize: the resources capability follows the
\* resource registry alone.
initialize_ResourcesOnly(server) ==
  Return([t |-> "InitializeResult",
          serverInfo |-> [name |-> server.name, version |-> server.version],
          protocolVersion |-> "2025-06-18",
          capabilities |->
             (IF hasTools(server) THEN {"tools"} ELSE {})
             \cup (IF hasResources(server) THEN {"resources"} ELSE {})
             \cup (IF hasPrompts(server) THEN {"prompts"} ELSE {})])

\* initialize: capabilities is the set of the keys assigned to it.
initialize(server) ==
  Return([t |-> "InitializeResult",
          serverInfo |-> [name |-> server.name, version |-> server.version],
          protocolVersion |-> "2025-06-18",
          capabilities |->
             (IF hasTools(server) THEN {"tools"} ELSE {})
             \cup (IF hasResources(server) \/ hasWidgets(server)
                   THEN {"resources"} ELSE {})
             \cup (IF hasPrompts(server) THEN {"prompts"} ELSE {})])

EmptyResult == [t |-> "EmptyResult"]

notifications_initialized == Return(EmptyResult)

ping == Return(EmptyResult)

\* prompts.get up to `await prompt['~validate'](payload.arguments)`.
prompts_get(server, payload) ==
  IF ~hasPrompts(server) THEN Return(mcpError("METHOD_NOT_FOUND"))
  ELSE IF payload.t = "undefined" THEN Throw(TypeError)
  ELSE LET prompt == Lookup(server.prompts, payload.name) IN
       IF prompt = Undefined THEN Return(mcpError("METHOD_NOT_FOUND"))
       ELSE Await([cap |-> "prompt", key |-> payload.name, config |-> prompt,
                   input |-> payload.arguments])

\* Faulty variant of prompts_get_validated: a validation failure is reported
\* as tools.call reports it.
prompts_get_validated_AsTools(validated) ==
  IF validated.k = "throw"
  THEN Return(IF isMCPError(validated.v) THEN validated.v
              ELSE mcpError("INVALID_PARAMS"))
  ELSE Await(validated.v)

\* prompts.get from the validator's settling to the call of the handler.
prompts_get_validated(validated) ==
  IF validated.k = "throw"
  THEN Return(IF isMCPError(validated.v) THEN validated.v
              ELSE mcpError("INTERNAL_ERROR"))
  ELSE Await(validated.v)

\* prompts.get from the handler's settling on.
prompts_get_result(outcome) ==
  IF outcome.k = "throw" THEN outcome
  ELSE IF isMCPError(outcome.v) THEN outcome
  ELSE IF outcome.v.t = "undefined" THEN Throw(TypeError)
  ELSE Return([t |-> "GetPromptResult",
               description |-> outcome.v.description,
               messages |-> <<[content |-> [type |-> "text", text |-> outcome.v.text],
                               role |-> IF outcome.v.role = "undefined"
                                        THEN "assistant" ELSE outcome.v.role]>>])

prompts_list(server) ==
  IF ~hasPrompts(server) THEN Return(mcpError("METHOD_NOT_FOUND"))
  ELSE Return([t |-> "ListPromptsResult",
               prompts |-> definePrompts(EntriesOf(server.prompts))])

resources_list(server, domain) ==
  IF ~hasResources(server) /\ ~hasWidgets(server)
  THEN Return(mcpError("METHOD_NOT_FOUND"))
  ELSE Return([t |-> "ListResourcesResult",
               resources |->
                  (IF hasResources(server)
                   THEN defineResources(EntriesOf(server.resources)) ELSE <<>>)
                  \o (IF hasWidgets(server)
                      THEN defineWidgets(EntriesOf(server.widgets), domain)
                      ELSE <<>>)])

resources_templates_list(server) ==
  IF ~hasResources(server) THEN Return(mcpError("METHOD_NOT_FOUND"))
  ELSE Return([t |-> "ListResourceTemplatesResult",
               resourceTemplates |->
                  defineResourceTemplates(EntriesOf(server.resources))])

\* Faulty variant of WidgetToken: the extension is not cut off.
WidgetToken_Unstripped(uri) == Split(uri, DoubleSlash)[2]

\* payload.uri.split('//')[1].split('.')[0]
WidgetToken(uri) == Split(Split(uri, DoubleSlash)[2], Dot)[1]

\* Faulty variant of resources_read: the template fallback is tried before
\* the literal match.
resources_read_TemplateFirst(server, payload, domain) ==
  IF ~hasResources(server) /\ ~hasWidgets(server)
  THEN Return(mcpError("METHOD_NOT_FOUND"))
  ELSE IF payload.t = "undefined" \/ payload.uri = NoUri THEN Throw(TypeError)
  ELSE IF StartsWith(payload.uri, WidgetScheme)
  THEN LET ws == EntriesOf(server.widgets)
           HasToken(w) == Includes(w.id, WidgetToken(payload.uri))
           i == FirstIndex([k \in 1..Len(ws) |-> HasToken(ws[k][2])])
       IN IF i = 0 THEN Return(mcpError("RESOURCE_NOT_FOUND"))
          ELSE Return(WidgetResult(ws[i][2], domain))
  ELSE LET rs == EntriesOf(server.resources)
           SameUri(r) == r.uri = payload.uri
           Templated(r) == isTemplate(OrElse(r.uri, <<>>))
           template == FirstIndex([k \in 1..Len(rs) |-> Templated(rs[k][2])])
           i == IF template # 0 THEN template
                ELSE FirstIndex([k \in 1..Len(rs) |-> SameUri(rs[k][2])])
       IN IF i = 0 THEN Return(mcpError("RESOURCE_NOT_FOUND"))
          ELSE Await([cap |-> "resource", key |-> rs[i][1], config |-> rs[i][2],
                      input |-> payload.uri])

\* resources.read up to `await resource['~call'](payload.uri, sessionId)`.
resources_read(server, payload, domain) ==
  IF ~hasResources(server) /\ ~hasWidgets(server)
  THEN Return(mcpError("METHOD_NOT_FOUND"))
  ELSE IF payload.t = "undefined" \/ payload.uri = NoUri THEN Throw(TypeError)
  ELSE IF StartsWith(payload.uri, WidgetScheme)
  THEN LET ws == EntriesOf(server.widgets)
           HasToken(w) == Includes(w.id, WidgetToken(payload.uri))
           i == FirstIndex([k \in 1..Len(ws) |-> HasToken(ws[k][2])])
       IN IF i = 0 THEN Return(mcpError("RESOURCE_NOT_FOUND"))
          ELSE Return(WidgetResult(ws[i][2], domain))
  ELSE LET rs == EntriesOf(server.resources)
           SameUri(r) == r.uri = payload.uri
           Templated(r) == isTemplate(OrElse(r.uri, <<>>))
           exact == FirstIndex([k \in 1..Len(rs) |-> SameUri(rs[k][2])])
           i == IF exact # 0 THEN exact
                ELSE FirstIndex([k \in 1..Len(rs) |-> Templated(rs[k][2])])
       IN IF i = 0 THEN Return(mcpError("RESOURCE_NOT_FOUND"))
          ELSE Await([cap |-> "resource", key |-> rs[i][1], config |-> rs[i][2],
                      input |-> payload.uri])

\* tools.call up to `await tool['~validate'](payload.arguments)`.
tools_call(server, payload) ==
  IF ~hasTools(server) THEN Return(mcpError("METHOD_NOT_FOUND"))
  ELSE IF payload.t = "undefined" THEN Throw(TypeError)
  ELSE LET tool == Lookup(server.tools, payload.name) IN
       IF tool = Undefined THEN Return(mcpError("METHOD_NOT_FOUND"))
       ELSE Await([cap |-> "tool", key |-> payload.name, config |-> tool,
                   input |-> payload.arguments])

\* Faulty variant of tools_call_validated: a validation failure is reported as
\* prompts.get reports it.
tools_call_validated_Internal(validated) ==
  IF validated.k = "throw"
  THEN Return(IF isMCPError(validated.v) THEN validated.v
              ELSE mcpError("INTERNAL_ERROR"))
  ELSE Await(validated.v)

\* Faulty variant of tools_call_validated: the tool is called whatever the
\* validator did.
tools_call_validated_Unchecked(validated) == Await(validated.v)

\* tools.call from the validator's settling to the call of the tool.
tools_call_validated(validated) ==
  IF validated.k = "throw"
  THEN Return(IF isMCPError(validated.v) THEN validated.v
              ELSE mcpError("INVALID_PARAMS"))
  ELSE Await(validated.v)

\* Faulty variant of tools_call_result: the tool's own metadata is merged as well.
tools_call_result_OwnMeta(config, result) ==
  IF config.widget # NoWidget \/ config.hasMeta
  THEN [result EXCEPT !.hasMeta = TRUE,
                      !._meta = Spread(Spread(config.meta, result._meta),
                                       IF config.widget # NoWidget
                                       THEN toolMetadata(config.widget)
                                       ELSE EmptyMeta)]
  ELSE result

\* Faulty variant of tools_call_result: an error result is returned as it is.
tools_call_result_SkipOnError(config, result) ==
  IF config.widget # NoWidget /\ ~result.isError
  THEN [result EXCEPT !.hasMeta = TRUE,
                      !._meta = Spread(result._meta, toolMetadata(config.widget))]
  ELSE result

\* Faulty variant of tools_call_result: the spreads are in the other order.
tools_call_result_ResultWins(config, result) ==
  IF config.widget # NoWidget
  THEN [result EXCEPT !.hasMeta = TRUE,
                      !._meta = Spread(toolMetadata(config.widget), result._meta)]
  ELSE result

\* tools.call from the tool's result on: the merge of the widget's metadata.
tools_call_result(config, result) ==
  IF config.widget # NoWidget
  THEN [result EXCEPT !.hasMeta = TRUE,
                      !._meta = Spread(result._meta, toolMetadata(config.widget))]
  ELSE result

\* Faulty variant of tools_list: the listing is not gated on the registry.
tools_list_Ungated(server) ==
  Return([t |-> "ListToolsResult",
          tools |-> defineTools(EntriesOf(server.tools))])

tools_list(server) ==
  IF ~hasTools(server) THEN Return(mcpError("METHOD_NOT_FOUND"))
  ELSE Return([t |-> "ListToolsResult",
               tools |-> defineTools(EntriesOf(server.tools))])

(***************************************************************************)
(* The handler table (the object the mpcHandler getter returns) and the    *)
(* walk of handleMCP over it.  A method string is the sequence of its      *)
(* '/'-separated segments.  Segments never name a member of                *)
(* Object.prototype or Function.prototype.                                 *)
(***************************************************************************)
Table(path) == [t |-> "object", path |-> path]
Fn(path, length) == [t |-> "function", path |-> path, length |-> length]

TableKeys(path) ==
  CASE path = <<>> -> {"initialize", "notifications", "prompts", "resources",
                       "tools", "ping"}
    [] path = <<"notifications">> -> {"initialized"}
    [] path = <<"prompts">> -> {"get", "list"}
    [] path = <<"resources">> -> {"list", "templates", "read"}
    [] path = <<"resources", "templates">> -> {"list"}
    [] path = <<"tools">> -> {"call", "list"}
    [] OTHER -> {}

\* The declared parameters of each handler: `async () =>` or `async (payload) =>`.
TableMember(path) ==
  IF TableKeys(path) # {} THEN Table(path)
  ELSE Fn(path, IF path \in {<<"initialize">>, <<"notifications", "initialized">>}
                THEN 0 ELSE 1)

\* `key in value`: own keys of a table, name and length of a function;
\* on a primitive the operator throws.
HasKey(v, key) ==
  IF v.t = "object" THEN key \in TableKeys(v.path)
  ELSE key \in {"name", "length"}

GetKey(v, key) ==
  IF v.t = "object" THEN TableMember(Append(v.path, key))
  ELSE IF key = "length" THEN Num(v.length)
  ELSE Str(v.path[Len(v.path)])

\* for (const key of method.split('/')) if (key in h) h = h[key];
RECURSIVE Walk(_, _)
Walk(segs, v) ==
  IF segs = <<>> THEN Return(v)
  ELSE IF v.t \notin {"object", "function"} THEN Throw(TypeError)
  ELSE Walk(Tail(segs), IF HasKey(v, Head(segs)) THEN GetKey(v, Head(segs)) ELSE v)

\* !handlerMethod
Falsy(v) == (v.t = "number" /\ v.n = 0) \/ (v.t = "string" /\ v.s = "")

(***************************************************************************)
(* Responses (index.ts, errors.ts, utils/handleGetDelete.ts).              *)
(***************************************************************************)
NoHeader == "<absent>"

JsonResponse(status, sessionHeader, body) ==
  [kind |-> "json", status |-> status,
   headers |-> [contentType |-> "application/json", mcpSessionId |-> sessionHeader],
   body |-> body]

errorResponse(error, sessionId) ==
  JsonResponse(400, sessionId,
    [jsonrpc |-> "2.0", id |-> "null",
     error |-> [code |-> error.code, message |-> error.message,
                data |-> error.data]])

successResponse(id, result, sessionId) ==
  JsonResponse(200, sessionId, [jsonrpc |-> "2.0", id |-> id, result |-> result])

handleGetDeleteMethodNotAllowed ==
  JsonResponse(405, NoHeader,
    [jsonrpc |-> "2.0", id |-> "null",
     error |-> [code |-> "-32000", message |-> "Method not allowed.",
                data |-> NoData]])

\* handleCors() and resolve(event) are SvelteKit's and the CORS helper's own.
CorsResponse == [kind |-> "cors"]
Resolved == [kind |-> "resolve"]
\* The promise handleMCP returned rejects: the exception reaches the transport.
Escaped(error) == [kind |-> "exception", error |-> error]
NoResponse == [kind |-> "none"]

\* Faulty variant of handleResult: an error the handler returned is
\* answered under the request's id.
handleResult_ErrorKeepsId(outcome, id, sessionId) ==
  IF outcome.k = "throw" THEN errorResponse(mcpError("INTERNAL_ERROR"), sessionId)
  ELSE IF isMCPError(outcome.v)
       THEN JsonResponse(400, sessionId,
              [jsonrpc |-> "2.0", id |-> id,
               error |-> [code |-> outcome.v.code, message |-> outcome.v.message,
                          data |-> outcome.v.data]])
  ELSE successResponse(id, outcome.v, sessionId)

\* handleMCP from `await handlerMethod(params, event)` settling on.
handleResult(outcome, id, sessionId) ==
  IF outcome.k = "throw" THEN errorResponse(mcpError("INTERNAL_ERROR"), sessionId)
  ELSE IF isMCPError(outcome.v) THEN errorResponse(outcome.v, sessionId)
  ELSE successResponse(id, outcome.v, sessionId)

\* The call of the resolved member: a table or a primitive is not callable.
callMember(member, server, params, domain) ==
  IF member.t # "function" THEN Throw(TypeError)
  ELSE CASE member.path = <<"initialize">> -> initialize(server)
         [] member.path = <<"notifications", "initialized">> -> notifications_initialized
         [] member.path = <<"prompts", "get">> -> prompts_get(server, params)
         [] member.path = <<"prompts", "list">> -> prompts_list(server)
         [] member.path = <<"resources", "list">> -> resources_list(server, domain)
         [] member.path = <<"resources", "templates", "list">> ->
              resources_templates_list(server)
         [] member.path = <<"resources", "read">> ->
              resources_read(server, params, domain)
         [] member.path = <<"tools", "call">> -> tools_call(server, params)
         [] member.path = <<"tools", "list">> -> tools_list(server)
         [] member.path = <<"ping">> -> ping

\* handleMCP from the parsed body to the first await inside the handler:
\* the response, or the call the handler waits on.  Destructuring null and
\* method.split on a non-string throw outside the try block.
dispatch(server, body, sessionId, origin) ==
  IF body.t = "null" THEN [k |-> "respond", response |-> Escaped(TypeError)]
  ELSE IF body.method.t # "string"
  THEN [k |-> "respond", response |-> Escaped(TypeError)]
  ELSE LET walked == Walk(body.method.segs, Table(<<>>)) IN
       IF walked.k = "throw" THEN [k |-> "respond", response |-> Escaped(walked.v)]
       ELSE IF Falsy(walked.v)
       THEN [k |-> "respond",
             response |-> errorResponse(mcpError("METHOD_NOT_FOUND"), sessionId)]
       ELSE LET started == callMember(walked.v, server, body.params,
                                      IF server.domain = "undefined" THEN origin
                                      ELSE server.domain)
            IN IF started.k = "await" THEN started
               ELSE [k |-> "respond",
                     response |-> handleResult(started, body.id, sessionId)]

(***************************************************************************)
(* Inputs: the HTTP requests a client sends and the ways a capability      *)
(* handler settles.                                                        *)
(***************************************************************************)
Slots == {"r1"}

Ids == {"1", "2"}
SessionHeaders == {NoHeader, "s1"}
\* crypto.randomUUID()
UUIDs == {"uuid-1"}
Origin == "https://origin.example"

Methods ==
  { <<"initialize">>, <<"notifications", "initialized">>, <<"ping">>,
    <<"prompts", "get">>, <<"prompts", "list">>,
    <<"resources", "list">>, <<"resources", "templates", "list">>,
    <<"resources", "read">>, <<"tools", "call">>, <<"tools", "list">>,
    <<"foo", "bar">>, <<"tools", "unknown">>, <<"tools">>,
    <<"resources", "templates">>, <<"foo", "ping">>, <<"ping", "foo">>,
    <<"ping", "length">>, <<"initialize", "length">>, <<"ping", "name">>,
    <<"ping", "name", "foo">>, <<"tools", "foo", "list">> }

ReadUris ==
  { WidgetUri(<<"a">>), WidgetUri(<<"a", "b">>), WidgetUri(<<"z">>),
    WidgetScheme \o <<"a">>, WidgetScheme,
    <<"f", ":", "p">>, <<"f", ":", "{", "x", "}">>, <<"f", ":", "q">>, <<"b">> }

\* The params worth sending to the member a method resolves to.
ParamsFor(segs) ==
  LET walked == Walk(segs, Table(<<>>))
      path == IF walked.k = "return" /\ walked.v.t = "function"
              THEN walked.v.path ELSE <<>>
  IN CASE path = <<"tools", "call">> ->
            {NoParams} \cup {Params(n, a, NoUri) :
                               n \in {"greet", "show", "bare", "nope"},
                               a \in {"good", "bad"}}
       [] path = <<"prompts", "get">> ->
            {NoParams} \cup {Params(n, a, NoUri) :
                               n \in {"ask", "tell", "nope"}, a \in {"good", "bad"}}
       [] path = <<"resources", "read">> ->
            {NoParams, Params("undefined", "good", NoUri)}
            \cup {Params("undefined", "good", u) : u \in ReadUris}
       [] OTHER -> {NoParams}

RpcBody(method, params, id) ==
  [t |-> "object", method |-> method, params |-> params, id |-> id]

Bodies ==
  { [t |-> "malformed"], [t |-> "null"],
    RpcBody([t |-> "undefined"], NoParams, "1"),
    RpcBody([t |-> "number"], NoParams, "1") }
  \cup UNION {{RpcBody([t |-> "string", segs |-> m], p, id) :
                 p \in ParamsFor(m), id \in Ids} : m \in Methods}

HttpRequest(method, mcpPath, sessionHeader, body) ==
  [method |-> method, mcpPath |-> mcpPath, sessionHeader |-> sessionHeader,
   body |-> body]

Requests ==
  {HttpRequest(m, TRUE, h, [t |-> "malformed"]) :
     m \in {"OPTIONS", "GET", "DELETE"}, h \in SessionHeaders}
  \cup {HttpRequest("POST", FALSE, NoHeader, [t |-> "malformed"])}
  \cup {HttpRequest("POST", TRUE, h, b) : h \in SessionHeaders, b \in Bodies}

NoRequest == HttpRequest("none", FALSE, NoHeader, [t |-> "malformed"])

CustomError(code) == mcpError3(code, "custom message", "custom data")

ToolOutcomes ==
  { Return(Str("Hello Ada")), Return(Obj("o1")), Return(Undefined),
    Return(ToolError("tool failed")), Return(ToolError("undefined")),
    Return(BlobResult(Binary("Uint8Array"), Mime("image", "png"), FALSE, EmptyMeta)),
    Return(BlobResult(Str("QUJD"), Mime("audio", "mpeg"), TRUE,
                      MetaOf(("version" :> <<"blob">>)
                             @@ ("openai/widgetAccessible" :> <<"true">>)))),
    Return(ResourceResult(<<"f", ":", "p">>, "plain", Mime("text", "plain"))),
    Return(CustomError("INVALID_PARAMS")),
    Throw(Error("boom")), Throw(Error("")), Throw(Str("thrown string")),
    Throw(ToolError("tool failed")), Throw(CustomError("INTERNAL_ERROR")) }

PromptOutcomes ==
  { Return(PromptValue("undefined", "undefined", "Say hi")),
    Return(PromptValue("A prompt", "user", "Say hi")),
    Return(Undefined), Return(CustomError("INVALID_PARAMS")),
    Throw(Error("boom")), Throw(CustomError("INVALID_PARAMS")) }

ResourceOutcomes ==
  { Return(Str("content")), Return(Binary("Blob")), Return(Binary("Uint8Array")),
    Return(Num(5)), Return(Undefined), Return(CustomError("INTERNAL_ERROR")),
    Throw(Error("boom")), Throw(CustomError("RESOURCE_NOT_FOUND")) }

\* handler?.(payload): a record without handler settles with undefined.
OutcomesOf(call) ==
  IF ~call.config.hasHandler THEN {Return(Undefined)}
  ELSE CASE call.cap = "tool" -> ToolOutcomes
         [] call.cap = "prompt" -> PromptOutcomes
         [] call.cap = "resource" -> ResourceOutcomes

(***************************************************************************)
(* State.                                                                  *)
(***************************************************************************)
VARIABLES
  server,     \* the MCPServer handed to handleMCP
  pc,         \* per request slot: where its handling stands
  request,    \* per slot: the HTTP request being handled
  sessionId,  \* per slot: the session id handleMCP settled on
  call,       \* per slot: the capability call the handler waits on
  invoked,    \* per slot: the capability handlers invoked for the request
  settled,    \* per slot: how the invoked handler settled
  response,   \* per slot: what handleMCP gave the transport
  widgetState, \* the widget's state object behind its proxy, and the last
               \* operation made through the proxy
  building,   \* the Resource a module is defining: its ~config and the last
              \* builder call made on it
  plugin      \* the Vite plugin of a dev server: its component map, the
              \* sources it watches and the files it wrote

vars == <<server, pc, request, sessionId, call, invoked, settled, response,
          widgetState, building, plugin>>

\* No dev server runs.  In a running one, built holds the files the last
\* buildStart compiled and hot those updated since.
NoPlugin == [t |-> "none"]

\* No resource is being defined: the registries are complete.
NoResource == [config |-> Undefined, op |-> "none"]

\* No widget is mounted: the server side runs alone.
NoWidgetState ==
  [value |-> Undefined, proxied |-> Undefined, aliased |-> TRUE,
   saved |-> Undefined, op |-> [kind |-> "none"], saves |-> 0]

NoCall == [cap |-> "none"]
NoOutcome == [k |-> "none"]

Init ==
  /\ server \in Servers
  /\ pc = [s \in Slots |-> "idle"]
  /\ request = [s \in Slots |-> NoRequest]
  /\ sessionId = [s \in Slots |-> NoHeader]
  /\ call = [s \in Slots |-> NoCall]
  /\ invoked = [s \in Slots |-> <<>>]
  /\ settled = [s \in Slots |-> NoOutcome]
  /\ response = [s \in Slots |-> NoResponse]
  /\ widgetState = NoWidgetState
  /\ building = NoResource
  /\ plugin = NoPlugin

\* A client sends a request.
Receive(s) ==
  /\ pc[s] = "idle"
  /\ \E r \in Requests : request' = [request EXCEPT ![s] = r]
  /\ pc' = [pc EXCEPT ![s] = "received"]
  /\ UNCHANGED <<widgetState, building, plugin, server, sessionId, call, invoked, settled, response>>

Finish(s, resp) ==
  /\ response' = [response EXCEPT ![s] = resp]
  /\ pc' = [pc EXCEPT ![s] = "done"]
  /\ call' = [call EXCEPT ![s] = NoCall]

\* handleMCP up to `await event.request.json()` settling.
Enter(s) ==
  /\ pc[s] = "received"
  /\ LET r == request[s] IN
     IF ~r.mcpPath THEN Finish(s, Resolved) /\ UNCHANGED sessionId
     ELSE IF r.method = "OPTIONS" THEN Finish(s, CorsResponse) /\ UNCHANGED sessionId
     ELSE IF r.method \in {"GET", "DELETE"}
     THEN Finish(s, handleGetDeleteMethodNotAllowed) /\ UNCHANGED sessionId
     ELSE \E fresh \in UUIDs :
            LET sid == IF r.sessionHeader \in {NoHeader, ""} THEN fresh
                       ELSE r.sessionHeader
            IN /\ sessionId' = [sessionId EXCEPT ![s] = sid]
               /\ IF r.body.t = "malformed"
                  THEN Finish(s, errorResponse(mcpError("PARSE_ERROR"), sid))
                  ELSE /\ pc' = [pc EXCEPT ![s] = "parsed"]
                       /\ UNCHANGED <<call, response>>
  /\ UNCHANGED <<widgetState, building, plugin, server, request, invoked, settled>>

Invocation(c, input, sid) ==
  [cap |-> c.cap, key |-> c.key, input |-> input, sessionId |-> sid]

\* Faulty variant of Dispatch: the session id is kept in a binding shared
\* by the requests in flight, where the last request to enter wrote it.
Dispatch_SharedBinding(s) ==
  /\ pc[s] = "parsed"
  /\ LET others == {t \in DOMAIN pc : t # s /\ pc[t] \notin {"idle", "received"}}
         sid == IF others = {} THEN sessionId[s]
                ELSE sessionId[CHOOSE t \in others : TRUE]
         d == dispatch(server, request[s].body, sid, Origin) IN
     IF d.k = "respond" THEN Finish(s, d.response) /\ UNCHANGED invoked
     ELSE IF d.call.cap = "resource"
     THEN /\ pc' = [pc EXCEPT ![s] = "calling"]
          /\ call' = [call EXCEPT ![s] = d.call]
          /\ invoked' = [invoked EXCEPT ![s] =
                IF d.call.config.hasHandler
                THEN Append(@, Invocation(d.call, d.call.input, sessionId[s]))
                ELSE @]
          /\ UNCHANGED response
     ELSE /\ pc' = [pc EXCEPT ![s] = "validating"]
          /\ call' = [call EXCEPT ![s] = d.call]
          /\ UNCHANGED <<invoked, response>>
  /\ UNCHANGED <<widgetState, building, plugin, server, request, sessionId, settled>>

\* handleMCP from the parsed body into the handler, to its first await.
Dispatch(s) ==
  /\ pc[s] = "parsed"
  /\ LET d == dispatch(server, request[s].body, sessionId[s], Origin) IN
     IF d.k = "respond" THEN Finish(s, d.response) /\ UNCHANGED invoked
     ELSE IF d.call.cap = "resource"
     THEN /\ pc' = [pc EXCEPT ![s] = "calling"]
          /\ call' = [call EXCEPT ![s] = d.call]
          /\ invoked' = [invoked EXCEPT ![s] =
                IF d.call.config.hasHandler
                THEN Append(@, Invocation(d.call, d.call.input, sessionId[s]))
                ELSE @]
          /\ UNCHANGED response
     ELSE /\ pc' = [pc EXCEPT ![s] = "validating"]
          /\ call' = [call EXCEPT ![s] = d.call]
          /\ UNCHANGED <<invoked, response>>
  /\ UNCHANGED <<widgetState, building, plugin, server, request, sessionId, settled>>

\* Faulty variant of ValidatorSettles: one MCPHandler serves the requests in
\* flight, and holds the session id of the request that made it last.
ValidatorSettles_SharedHandler(s) ==
  /\ pc[s] = "validating"
  /\ LET c == call[s]
         others == {t \in DOMAIN pc : t # s /\ pc[t] \notin {"idle", "received"}}
         sid == IF others = {} THEN sessionId[s]
                ELSE sessionId[CHOOSE t \in others : TRUE]
         validated == Validate(c.config, c.input)
         next == IF c.cap = "tool" THEN tools_call_validated(validated)
                 ELSE prompts_get_validated(validated)
     IN IF next.k = "return"
        THEN Finish(s, handleResult(next, request[s].body.id, sessionId[s]))
             /\ UNCHANGED invoked
        ELSE /\ pc' = [pc EXCEPT ![s] = "calling"]
             /\ call' = [call EXCEPT ![s] = [c EXCEPT !.input = next.call]]
             /\ invoked' = [invoked EXCEPT ![s] =
                   IF c.config.hasHandler
                   THEN Append(@, Invocation(c, next.call, sid))
                   ELSE @]
             /\ UNCHANGED response
  /\ UNCHANGED <<widgetState, building, plugin, server, request, sessionId, settled>>

\* `await capability['~validate'](payload.arguments)` settles.
ValidatorSettles(s) ==
  /\ pc[s] = "validating"
  /\ LET c == call[s]
         validated == Validate(c.config, c.input)
         next == IF c.cap = "tool" THEN tools_call_validated(validated)
                 ELSE prompts_get_validated(validated)
     IN IF next.k = "return"
        THEN Finish(s, handleResult(next, request[s].body.id, sessionId[s]))
             /\ UNCHANGED invoked
        ELSE /\ pc' = [pc EXCEPT ![s] = "calling"]
             /\ call' = [call EXCEPT ![s] = [c EXCEPT !.input = next.call]]
             /\ invoked' = [invoked EXCEPT ![s] =
                   IF c.config.hasHandler
                   THEN Append(@, Invocation(c, next.call, sessionId[s]))
                   ELSE @]
             /\ UNCHANGED response
  /\ UNCHANGED <<widgetState, building, plugin, server, request, sessionId, settled>>

\* Faulty variant of afterHandler: the BlobResult's promise is not awaited.
afterHandler_BlobNotAwaited(c, outcome) ==
  CASE c.cap = "tool" ->
         Return(tools_call_result(c.config, ToolCallShape(c.config, outcome)))
    [] c.cap = "prompt" -> prompts_get_result(outcome)
    [] c.cap = "resource" -> ResourceCallShape(c.config, c.input, outcome)

\* The capability's result once its handler settled with outcome: what the
\* table's handler returns or throws, or the BlobResult still to resolve.
afterHandler(c, outcome) ==
  CASE c.cap = "tool" ->
         LET shaped == ToolCallShape(c.config, outcome) IN
         IF shaped.t = "BlobResult" THEN Await(shaped)
         ELSE Return(tools_call_result(c.config, shaped))
    [] c.cap = "prompt" -> prompts_get_result(outcome)
    [] c.cap = "resource" -> ResourceCallShape(c.config, c.input, outcome)

\* `await this['~config'].handler?.(payload)` settles.
HandlerSettles(s) ==
  /\ pc[s] = "calling"
  /\ \E outcome \in OutcomesOf(call[s]) :
       LET after == afterHandler(call[s], outcome) IN
       /\ settled' = [settled EXCEPT ![s] = outcome]
       /\ IF after.k = "await"
          THEN /\ pc' = [pc EXCEPT ![s] = "resolving"]
               /\ call' = [call EXCEPT ![s] = [@ EXCEPT !.input = after.call]]
               /\ UNCHANGED response
          ELSE Finish(s, handleResult(after, request[s].body.id, sessionId[s]))
  /\ UNCHANGED <<widgetState, building, plugin, server, request, sessionId, invoked>>

\* `await result.result` of a BlobResult settles.
BlobSettles(s) ==
  /\ pc[s] = "resolving"
  /\ Finish(s, handleResult(
               Return(tools_call_result(call[s].config,
                                        BlobResultResolved(call[s].input))),
               request[s].body.id, sessionId[s]))
  /\ UNCHANGED <<widgetState, building, plugin, server, request, sessionId, invoked, settled>>

\* The transport sends the response; nothing of the request is kept.
Deliver(s) ==
  /\ pc[s] = "done"
  /\ pc' = [pc EXCEPT ![s] = "idle"]
  /\ request' = [request EXCEPT ![s] = NoRequest]
  /\ sessionId' = [sessionId EXCEPT ![s] = NoHeader]
  /\ invoked' = [invoked EXCEPT ![s] = <<>>]
  /\ settled' = [settled EXCEPT ![s] = NoOutcome]
  /\ response' = [response EXCEPT ![s] = NoResponse]
  /\ UNCHANGED <<widgetState, building, plugin, server, call>>

Next ==
  \E s \in Slots :
    \/ Receive(s)
    \/ Enter(s)
    \/ Dispatch(s)
    \/ ValidatorSettles(s)
    \/ HandlerSettles(s)
    \/ BlobSettles(s)
    \/ Deliver(s)

Spec == Init /\ [][Next]_vars

(***************************************************************************)
(* Two requests in flight at once on one server: the handle SvelteKit      *)
(* calls is re-entered at each await of the request before.                *)
(***************************************************************************)
ConcurrentSlots == {"r1", "r2"}

ConcurrentServers ==
  {srv \in Servers :
     /\ srv.tools = Registry(<<ToolUniverse[1]>>)
     /\ srv.resources = Registry(<<ResourceUniverse[2]>>)
     /\ srv.prompts = Registry(<<>>)
     /\ srv.widgets = Registry(<<>>)}

ConcurrentRequests ==
  {r \in Requests :
     /\ r.method = "POST" /\ r.mcpPath
     /\ r.body.t = "object" /\ r.body.method.t = "string"
     /\ r.body.id = "1"
     /\ \/ /\ r.body.method.segs = <<"tools", "call">>
           /\ r.body.params.t = "object"
           /\ r.body.params.name = "greet"
        \/ /\ r.body.method.segs = <<"resources", "read">>
           /\ r.body.params.t = "object"
           /\ r.body.params.uri = <<"f", ":", "p">>
        \/ r.body.method.segs = <<"tools", "list">>}

ConcurrentInit ==
  /\ server \in ConcurrentServers
  /\ pc = [s \in ConcurrentSlots |-> "idle"]
  /\ request = [s \in ConcurrentSlots |-> NoRequest]
  /\ sessionId = [s \in ConcurrentSlots |-> NoHeader]
  /\ call = [s \in ConcurrentSlots |-> NoCall]
  /\ invoked = [s \in ConcurrentSlots |-> <<>>]
  /\ settled = [s \in ConcurrentSlots |-> NoOutcome]
  /\ response = [s \in ConcurrentSlots |-> NoResponse]
  /\ widgetState = NoWidgetState
  /\ building = NoResource
  /\ plugin = NoPlugin

ConcurrentReceive(s) ==
  /\ pc[s] = "idle"
  /\ \E r \in ConcurrentRequests : request' = [request EXCEPT ![s] = r]
  /\ pc' = [pc EXCEPT ![s] = "received"]
  /\ UNCHANGED <<widgetState, building, plugin, server, sessionId, call, invoked, settled, response>>

ConcurrentNext ==
  \E s \in ConcurrentSlots :
    \/ ConcurrentReceive(s)
    \/ Enter(s)
    \/ Dispatch(s)
    \/ ValidatorSettles(s)
    \/ HandlerSettles(s)
    \/ BlobSettles(s)
    \/ Deliver(s)

ConcurrentSpec == ConcurrentInit /\ [][ConcurrentNext]_vars

(***************************************************************************)
(* The widget-state proxy (api/widgetState.svelte.ts).  The state is a     *)
(* tree of plain objects, arrays and primitives; the proxy createDeepProxy *)
(* makes is walked down to a container by its get trap, and the operation  *)
(* made there runs the set trap, the deleteProperty trap, or a method the  *)
(* get trap handed out.                                                    *)
(***************************************************************************)
MaxItems == 2

NaN == [t |-> "NaN"]
PlainObject(props) == [t |-> "Object", props |-> props]
ArrayOf(items) == [t |-> "Array", items |-> items]

\* value !== null && typeof value === 'object'
IsObject(v) == v.t \in {"Object", "Array"}

MUTATIVE_ARRAY_METHODS ==
  {"push", "pop", "shift", "unshift", "splice", "reverse", "sort", "fill",
   "copyWithin"}

NonMutativeMethods == {"map", "filter", "find", "slice", "includes"}

\* A value handed to the proxy, with where the caller got it from: written
\* on the spot ("literal"), read from the proxy at the property it is now
\* assigned to ("proxy"), or the very object the property holds, of which
\* the caller kept a reference ("raw").
Given(v, ref) == [v |-> v, ref |-> ref]

\* a === b, a being what the target holds: primitives by value, NaN equal
\* to nothing, objects by identity.
StrictEquals(held, given) ==
  IF IsObject(given.v) THEN given.ref = "raw"
  ELSE held = given.v /\ given.v # NaN

\* target[prop] and `prop in target` on a plain object.
ReadProp(target, prop) ==
  IF prop \in DOMAIN target.props THEN target.props[prop] ELSE Undefined

HasProp(target, prop) == prop \in DOMAIN target.props

\* What a trap leaves behind: the target and the calls of onSave it made.
Trapped(target, saves) == [target |-> target, saves |-> saves]

\* The set trap on a plain object.
set(target, prop, given) ==
  IF ~StrictEquals(ReadProp(target, prop), given)
  THEN Trapped(PlainObject((prop :> given.v) @@ target.props), 1)
  ELSE Trapped(target, 0)

\* The set trap on an array, prop being an index (counted from 1 here).
setIndex(target, index, given) ==
  LET held == IF index <= Len(target.items) THEN target.items[index]
              ELSE Undefined
  IN IF ~StrictEquals(held, given)
     THEN Trapped(ArrayOf([i \in 1..(IF index > Len(target.items) THEN index
                                     ELSE Len(target.items)) |->
                             IF i = index THEN given.v ELSE target.items[i]]), 1)
     ELSE Trapped(target, 0)

\* The deleteProperty trap on a plain object.
deleteProperty(target, prop) ==
  IF HasProp(target, prop)
  THEN Trapped(PlainObject([k \in DOMAIN target.props \ {prop} |->
                              target.props[k]]), 1)
  ELSE Trapped(target, 0)

\* Array.prototype.sort with no comparator, on numbers and NaN: by their
\* strings, "1" < "2" < "NaN".
SortRank(v) == IF v = NaN THEN 3 ELSE v.n

SortItems(items) ==
  LET Upto(r) == Cardinality({i \in 1..Len(items) : SortRank(items[i]) <= r})
  IN [i \in 1..Len(items) |->
        IF i <= Upto(1) THEN Num(1)
        ELSE IF i <= Upto(2) THEN Num(2) ELSE NaN]

\* What each array method leaves in the array; splice is splice(0, 1) and
\* copyWithin is copyWithin(0, 1).
ApplyMethod(items, method, arg) ==
  CASE method = "push" -> Append(items, arg)
    [] method = "pop" ->
         IF items = <<>> THEN items ELSE SubSeq(items, 1, Len(items) - 1)
    [] method \in {"shift", "splice"} ->
         IF items = <<>> THEN items ELSE Tail(items)
    [] method = "unshift" -> <<arg>> \o items
    [] method = "reverse" ->
         [i \in 1..Len(items) |-> items[Len(items) + 1 - i]]
    [] method = "sort" -> SortItems(items)
    [] method = "fill" -> [i \in 1..Len(items) |-> arg]
    [] method = "copyWithin" ->
         [i \in 1..Len(items) |-> IF i < Len(items) THEN items[i + 1] ELSE items[i]]
    [] OTHER -> items

\* A method read through the get trap and called: a mutative method of an
\* array is wrapped, runs on the target and calls onSave; any other method
\* is handed out as it is and writes nothing.
callMethod(target, method, arg) ==
  IF target.t = "Array" /\ method \in MUTATIVE_ARRAY_METHODS
  THEN Trapped(ArrayOf(ApplyMethod(target.items, method, arg)), 1)
  ELSE Trapped(target, 0)

\* The get trap, down a path of property names: the target of the nested
\* proxy it returns, undefined when a property on the way is missing.
RECURSIVE GetPath(_, _)
GetPath(target, path) ==
  IF path = <<>> THEN target
  ELSE IF target.t = "Object" /\ HasProp(target, Head(path))
       THEN GetPath(target.props[Head(path)], Tail(path))
       ELSE Undefined

\* The root once the target at path has been written to in place.
RECURSIVE PutPath(_, _, _)
PutPath(root, path, target) ==
  IF path = <<>> THEN target
  ELSE PlainObject((Head(path) :> PutPath(root.props[Head(path)], Tail(path), target))
                   @@ root.props)

\* The states a widget works on: a counter and a user with a name and a
\* list.
PrimValues == {Num(1), Num(2), NaN}
ContainerPaths == {<<>>, <<"user">>, <<"user", "items">>}
PropsAt(path) == IF path = <<>> THEN {"count", "user"} ELSE {"name", "items"}

InitialState ==
  PlainObject([count |-> Num(1),
               user |-> PlainObject([name |-> Num(1),
                                     items |-> ArrayOf(<<Num(1)>>)])])

\* What a caller assigns to prop of target.
GivenFor(target, prop) ==
  IF prop \in {"count", "name"} THEN {Given(p, "literal") : p \in PrimValues}
  ELSE {Given(IF prop = "user" THEN PlainObject([name |-> Num(2)])
              ELSE ArrayOf(<<>>), "literal")}
       \cup (IF HasProp(target, prop)
             THEN {Given(target.props[prop], "proxy"),
                   Given(target.props[prop], "raw")}
             ELSE {})

mcpVars == <<server, pc, request, sessionId, call, invoked, settled, response>>

\* new WidgetStateProxy(initialState)
WidgetInit ==
  /\ server \in {srv \in Servers :
                   /\ srv.tools = NoRegistry
                   /\ srv.prompts = Registry(<<>>)
                   /\ srv.resources = Registry(<<>>)
                   /\ srv.widgets = Registry(<<WidgetUniverse[2]>>)}
  /\ pc = [s \in Slots |-> "idle"]
  /\ request = [s \in Slots |-> NoRequest]
  /\ sessionId = [s \in Slots |-> NoHeader]
  /\ call = [s \in Slots |-> NoCall]
  /\ invoked = [s \in Slots |-> <<>>]
  /\ settled = [s \in Slots |-> NoOutcome]
  /\ response = [s \in Slots |-> NoResponse]
  /\ widgetState = [value |-> InitialState, proxied |-> InitialState,
                    aliased |-> TRUE, saved |-> Undefined,
                    op |-> [kind |-> "none"], saves |-> 0]
  /\ building = NoResource
  /\ plugin = NoPlugin

\* The widget runs one operation through the proxy.  The proxy works on the
\* object it was created over in the constructor; that object is this.value
\* for as long as this.value has not been assigned.  onSave hands a snapshot
\* of this.value to window.openai.setWidgetState.
Operated(path, trapped, op) ==
  LET written == PutPath(widgetState.proxied, path, trapped.target)
      value == IF widgetState.aliased THEN written ELSE widgetState.value
  IN
  /\ widgetState' = [value |-> value, proxied |-> written,
                     aliased |-> widgetState.aliased,
                     saved |-> IF trapped.saves > 0 THEN value
                               ELSE widgetState.saved,
                     op |-> op, saves |-> trapped.saves]
  /\ UNCHANGED <<mcpVars, building, plugin>>

\* proxy.a.b = value
AssignProperty ==
  \E path \in ContainerPaths :
    LET target == GetPath(widgetState.proxied, path) IN
    /\ target.t = "Object"
    /\ \E prop \in PropsAt(path) : \E given \in GivenFor(target, prop) :
         Operated(path, set(target, prop, given),
                  [kind |-> "set", path |-> path, prop |-> prop, given |-> given,
                   held |-> ReadProp(target, prop)])

\* proxy.items[i] = value
AssignIndex ==
  \E path \in ContainerPaths :
    LET target == GetPath(widgetState.proxied, path) IN
    /\ target.t = "Array"
    /\ \E index \in 1..MaxItems : \E p \in PrimValues :
         /\ index <= Len(target.items) + 1
         /\ Operated(path, setIndex(target, index, Given(p, "literal")),
                     [kind |-> "set", path |-> path, index |-> index,
                      given |-> Given(p, "literal"),
                      held |-> IF index <= Len(target.items)
                               THEN target.items[index] ELSE Undefined])

\* delete proxy.a.b
DeleteProperty ==
  \E path \in ContainerPaths :
    LET target == GetPath(widgetState.proxied, path) IN
    /\ target.t = "Object"
    /\ \E prop \in PropsAt(path) :
         Operated(path, deleteProperty(target, prop),
                  [kind |-> "delete", path |-> path, prop |-> prop,
                   had |-> HasProp(target, prop)])

\* proxy.items.method(arg)
CallMethod ==
  \E path \in ContainerPaths :
    LET target == GetPath(widgetState.proxied, path) IN
    /\ target.t = "Array"
    /\ \E method \in MUTATIVE_ARRAY_METHODS \cup NonMutativeMethods :
       \E arg \in IF method \in {"push", "unshift", "fill"} THEN PrimValues
                  ELSE {Undefined} :
         /\ method \in {"push", "unshift"} => Len(target.items) < MaxItems
         /\ Operated(path, callMethod(target, method, arg),
                     [kind |-> "call", path |-> path, method |-> method,
                      arg |-> arg])

\* The states a widget replaces its state with.
ReplacementStates ==
  {PlainObject([count |-> Num(2),
                user |-> PlainObject([name |-> Num(2),
                                      items |-> ArrayOf(<<Num(2)>>)])]),
   InitialState}

\* this.value = value in WidgetStateProxy: the field is assigned, the proxy
\* made in the constructor stays as it is.
assignValue(value, op, saved, saves) ==
  /\ widgetState' = [value |-> value, proxied |-> widgetState.proxied,
                     aliased |-> FALSE, saved |-> saved, op |-> op,
                     saves |-> saves]
  /\ UNCHANGED <<mcpVars, building, plugin>>

\* openai.widgetState = value
SetWidgetState ==
  \E value \in ReplacementStates :
    assignValue(value, [kind |-> "replace", value |-> value], value, 1)

\* The host's set-globals event carrying widgetState.
setGlobals ==
  \E value \in ReplacementStates :
    assignValue(value, [kind |-> "globals", value |-> value],
                widgetState.saved, 0)

WidgetNext ==
  \/ AssignProperty
  \/ AssignIndex
  \/ DeleteProperty
  \/ CallMethod
  \/ SetWidgetState
  \/ setGlobals

WidgetSpec == WidgetInit /\ [][WidgetNext]_vars

(***************************************************************************)
(* The Resource builder (resources.ts): resource(name) and the chained     *)
(* setters, each of which writes one field of ~config and returns the      *)
(* resource.                                                               *)
(***************************************************************************)
\* new Resource(name): this['~config'] = { name }
resource(name) ==
  ResourceConfig(name, NoMime, NoUri, "undefined", FALSE, Undefined)

Resource_uri(config, uri) == [config EXCEPT !.uri = uri]

Resource_handle(config) == [config EXCEPT !.hasHandler = TRUE]

Resource_description(config, description) ==
  [config EXCEPT !.description = description]

Resource_meta(config, meta) == [config EXCEPT !.meta = meta]

\* Resource.type: validateMimeType decides whether the type is taken; when
\* it is not the setter throws and nothing is written.
Resource_type(config, type, valid) ==
  IF ~valid THEN Throw(Error("Invalid mime type"))
  ELSE Return([config EXCEPT !.type = type])

ResourceStrings == {"A test resource", "Chainable resource"}
ResourceUris == {<<"f", ":", "p">>, <<"f", ":", "{", "x", "}">>}
ResourceTypes == {Mime("text", "plain"), Mime("application", "json")}
ResourceMetas == {Obj("cached"), Obj("versioned")}

Built(config, op, arg) ==
  /\ building' = [config |-> config, op |-> op, arg |-> arg,
                  before |-> building.config]
  /\ UNCHANGED <<mcpVars, widgetState, plugin>>

\* const r = resource(name)
BuilderInit ==
  /\ server \in {srv \in Servers :
                   /\ srv.tools = NoRegistry
                   /\ srv.prompts = Registry(<<>>)
                   /\ srv.resources = Registry(<<>>)
                   /\ srv.widgets = Registry(<<>>)}
  /\ pc = [s \in Slots |-> "idle"]
  /\ request = [s \in Slots |-> NoRequest]
  /\ sessionId = [s \in Slots |-> NoHeader]
  /\ call = [s \in Slots |-> NoCall]
  /\ invoked = [s \in Slots |-> <<>>]
  /\ settled = [s \in Slots |-> NoOutcome]
  /\ response = [s \in Slots |-> NoResponse]
  /\ widgetState = NoWidgetState
  /\ plugin = NoPlugin
  /\ \E name \in ResourceStrings :
       building = [config |-> resource(name), op |-> "resource",
                   arg |-> Str(name), before |-> resource(name)]

\* r.uri(uri)
CallUri ==
  \E uri \in ResourceUris :
    Built(Resource_uri(building.config, uri), "uri", Str(uri))

\* r.type(type)
CallType ==
  \E type \in ResourceTypes : \E valid \in BOOLEAN :
    LET done == Resource_type(building.config, type, valid) IN
    Built(IF done.k = "return" THEN done.v ELSE building.config,
          IF done.k = "return" THEN "type" ELSE "type threw", Str(type))

\* r.meta(meta)
CallMeta ==
  \E meta \in ResourceMetas :
    Built(Resource_meta(building.config, meta), "meta", meta)

\* r.handle(handler)
CallHandle == Built(Resource_handle(building.config), "handle", Undefined)

\* r.description(description)
CallDescription ==
  \E description \in ResourceStrings :
    Built(Resource_description(building.config, description), "description",
          Str(description))

BuilderNext ==
  \/ CallUri
  \/ CallType
  \/ CallMeta
  \/ CallHandle
  \/ CallDescription

BuilderSpec == BuilderInit /\ [][BuilderNext]_vars

(***************************************************************************)
(* The Vite plugin in dev mode (vite/mcp.plugin.ts, vite/file-watcher.ts,  *)
(* vite/validators.ts, vite/hook.ts).  A name is the sequence of its       *)
(* characters; a source file is known by its base name, the part of its    *)
(* path before ".mcp.svelte".                                              *)
(***************************************************************************)
MaxEdits == 2
MaxFiles == 2

LowerCase == {"a", "b"}
UpperCase == {"A", "B"}
Digits == {"1"}

\* String.prototype.toLowerCase on one character.
toLowerCase(c) == IF c = "A" THEN "a" ELSE IF c = "B" THEN "b" ELSE c

\* .replace(/[^a-zA-Z0-9]/g, '_') on the base name.
rawComponentName(base) ==
  [i \in 1..Len(base) |->
     IF base[i] \in LowerCase \cup UpperCase \cup Digits THEN base[i] ELSE "_"]

\* toKebabCase: a hyphen between a lower-case letter and the upper-case
\* letter after it, underscores to hyphens, all to lower case.
RECURSIVE toKebabCase(_)
toKebabCase(name) ==
  IF name = <<>> THEN <<>>
  ELSE LET c == Head(name) IN
       <<IF c = "_" THEN "-" ELSE toLowerCase(c)>>
       \o (IF Len(name) >= 2 /\ c \in LowerCase /\ name[2] \in UpperCase
           THEN <<"-">> ELSE <<>>)
       \o toKebabCase(Tail(name))

\* validateComponentName(name).valid
validateComponentName(name) ==
  /\ name # <<>>
  /\ name[1] \in LowerCase \cup UpperCase \cup {"_", "$"}
  /\ \A i \in 1..Len(name) :
       name[i] \in LowerCase \cup UpperCase \cup Digits \cup {"_", "$"}

\* The bundle made of version v of the source file.
BundleCode(file, version) == [t |-> "code", file |-> file, version |-> version]
NoFile == [t |-> "none"]

\* compileComponentInline(filePath, componentName, ...): the compiler
\* succeeds or fails; the component it returns is named componentName.
compileComponentInline(file, componentName, version, ok) ==
  IF ok
  THEN [success |-> TRUE,
        component |-> [name |-> componentName, code |-> BundleCode(file, version),
                       filePath |-> file]]
  ELSE [success |-> FALSE]

\* Map.prototype.set: a key that is there keeps its place.
MapSet(map, key, value) ==
  IF \E i \in 1..Len(map) : map[i][1] = key
  THEN [i \in 1..Len(map) |-> IF map[i][1] = key THEN <<key, value>> ELSE map[i]]
  ELSE Append(map, <<key, value>>)

MapHas(map, key) == \E i \in 1..Len(map) : map[i][1] = key
MapGet(map, key) == map[CHOOSE i \in 1..Len(map) : map[i][1] = key][2]

\* The source files there can be, and the names a bundle can be written
\* under.
Basenames ==
  { <<"a", "b">>, <<"b", "A">>, <<"a", "_", "b">>, <<"1", "a">> }

OutputNames ==
  {rawComponentName(b) : b \in Basenames}
  \cup {toKebabCase(rawComponentName(b)) : b \in Basenames}

\* for (const [, component] of mcpComponents) fs.writeFile(`${name}.js`, code)
RECURSIVE WriteEach(_, _)
WriteEach(bundles, map) ==
  IF map = <<>> THEN bundles
  ELSE WriteEach([bundles EXCEPT ![Head(map)[2].name] = Head(map)[2].code],
                 Tail(map))

\* generateIndexContent(mcpComponents): the list of the components' names.
generateIndexContent(map) == [i \in 1..Len(map) |-> map[i][2].name]

\* writeComponentFiles of the file watcher: static/{outputDir} afterwards.
writeComponentFiles(map, static) ==
  [bundles |-> WriteEach(static.bundles, map),
   hasIndex |-> TRUE, index |-> generateIndexContent(map)]

\* writeDevFiles of the plugin: the same writes.
writeDevFiles(map, static) ==
  [bundles |-> WriteEach(static.bundles, map),
   hasIndex |-> TRUE, index |-> generateIndexContent(map)]

\* The loop of buildStart over the files glob found, oks telling which
\* compilations succeed.
RECURSIVE CompileAll(_, _, _, _)
CompileAll(files, sources, oks, map) ==
  IF files = <<>> THEN map
  ELSE LET file == Head(files)
           rawName == rawComponentName(file)
           componentName == toKebabCase(rawName)
           result == compileComponentInline(file, componentName, sources[file],
                                            oks[file])
       IN CompileAll(Tail(files), sources, oks,
                     IF validateComponentName(rawName) /\ result.success
                     THEN MapSet(map, file, result.component) ELSE map)

\* ensureMCPHook: the widgets src/mcp/widgets.ts exports afterwards.
ensureMCPHook(widgets, map) ==
  widgets \cup {toKebabCase(map[i][2].name) : i \in 1..Len(map)}

\* The projects: up to MaxFiles of the source files, in the order glob
\* finds them.
GlobOrder == << <<"1", "a">>, <<"a", "_", "b">>, <<"a", "b">>, <<"b", "A">> >>

Projects ==
  {PickFrom(GlobOrder, idx, 1) :
     idx \in {x \in SUBSET (1..Len(GlobOrder)) : Cardinality(x) \in 1..MaxFiles}}

\* vite dev: the plugin is made and configResolved sets isDevMode.
PluginInit ==
  /\ server \in {srv \in Servers :
                   /\ srv.tools = NoRegistry
                   /\ srv.prompts = Registry(<<>>)
                   /\ srv.resources = Registry(<<>>)
                   /\ srv.widgets = Registry(<<>>)}
  /\ pc = [s \in Slots |-> "idle"]
  /\ request = [s \in Slots |-> NoRequest]
  /\ sessionId = [s \in Slots |-> NoHeader]
  /\ call = [s \in Slots |-> NoCall]
  /\ invoked = [s \in Slots |-> <<>>]
  /\ settled = [s \in Slots |-> NoOutcome]
  /\ response = [s \in Slots |-> NoResponse]
  /\ widgetState = NoWidgetState
  /\ building = NoResource
  /\ \E project \in Projects :
       plugin = [project |-> project,
                 sources |-> [b \in Basenames |-> 0],
                 isDevMode |-> TRUE,
                 mcpComponents |-> <<>>,
                 widgetsEnsured |-> FALSE,
                 widgets |-> {},
                 static |-> [bundles |-> [n \in OutputNames |-> NoFile],
                             hasIndex |-> FALSE, index |-> <<>>],
                 built |-> {}, hot |-> {},
                 last |-> [op |-> "configResolved"]]

InProject(file) == \E i \in 1..Len(plugin.project) : plugin.project[i] = file

\* The buildStart hook.
buildStart ==
  \E oks \in [Basenames -> BOOLEAN] :
    LET map == CompileAll(plugin.project, plugin.sources, oks, <<>>)
        ensure == map # <<>> /\ ~plugin.widgetsEnsured
    IN
    /\ \A b \in Basenames : ~InProject(b) => oks[b]
    /\ plugin' = [plugin EXCEPT
         !.mcpComponents = map,
         !.widgets = IF ensure THEN ensureMCPHook(@, map) ELSE @,
         !.widgetsEnsured = @ \/ ensure,
         !.static = IF plugin.isDevMode /\ map # <<>>
                    THEN writeDevFiles(map, @) ELSE @,
         !.built = {map[i][1] : i \in 1..Len(map)},
         !.hot = {},
         !.last = [op |-> "buildStart"]]
    /\ UNCHANGED <<mcpVars, widgetState, building>>

\* handleFileChange(filePath, mcpComponents, ...): the map and the static
\* directory afterwards, and whether the recompilation succeeded.
handleFileChange(file, version, ok, map, static) ==
  LET componentName == rawComponentName(file)
      result == compileComponentInline(file, componentName, version, ok)
  IN IF validateComponentName(componentName) /\ result.success
     THEN LET updated == MapSet(map, file, result.component) IN
          [success |-> TRUE, mcpComponents |-> updated,
           static |-> writeComponentFiles(updated, static)]
     ELSE [success |-> FALSE, mcpComponents |-> map, static |-> static]

\* A source file is saved and the handleHotUpdate hook runs for it; the
\* dev server runs buildStart before it watches.
handleHotUpdate ==
  \E i \in 1..Len(plugin.project) : \E ok \in BOOLEAN :
    LET file == plugin.project[i]
        version == plugin.sources[file] + 1
        changed == handleFileChange(file, version, ok, plugin.mcpComponents,
                                    plugin.static)
    IN
    /\ plugin.isDevMode
    /\ plugin.last.op # "configResolved"
    /\ version <= MaxEdits
    /\ plugin' = [plugin EXCEPT
         !.sources[file] = version,
         !.mcpComponents = changed.mcpComponents,
         !.static = changed.static,
         !.hot = IF changed.success THEN @ \cup {file} ELSE @,
         !.last = [op |-> "handleHotUpdate", file |-> file,
                   reload |-> changed.success]]
    /\ UNCHANGED <<mcpVars, widgetState, building>>

PluginNext ==
  \/ buildStart
  \/ handleHotUpdate

PluginSpec == PluginInit /\ [][PluginNext]_vars

(***************************************************************************)
(* Properties.                                                             *)
(***************************************************************************)
\* The request of slot s is a JSON-RPC call of the /mcp endpoint whose
\* method is a string.
IsRpc(s) ==
  /\ request[s].method = "POST"
  /\ request[s].mcpPath
  /\ request[s].body.t = "object"
  /\ request[s].body.method.t = "string"

MethodOf(s) == request[s].body.method.segs

\* A JSON-RPC error envelope, and one of a given error kind.
IsErrorEnvelope(r) == r.kind = "json" /\ "error" \in DOMAIN r.body
IsErrorOf(r, code) == IsErrorEnvelope(r) /\ r.body.error.code = code
\* A JSON-RPC success envelope.
IsSuccess(r) == r.kind = "json" /\ "result" \in DOMAIN r.body

\* Every segment is a key of the table reached so far and the last one
\* names a function.
ResolvesToHandler(segs) ==
  /\ \A i \in 1..Len(segs) : segs[i] \in TableKeys(SubSeq(segs, 1, i - 1))
  /\ TableKeys(segs) = {}

\* C1: a request whose method has a segment that does not resolve in the
\* handler table, or that resolves to a member that is not callable, is
\* answered with a METHOD_NOT_FOUND error.
C1_UnresolvedIsMethodNotFound ==
  \A s \in Slots :
    (pc[s] = "done" /\ IsRpc(s) /\ ~ResolvesToHandler(MethodOf(s)))
      => IsErrorOf(response[s], "METHOD_NOT_FOUND")

\* C2: a POST to /mcp always ends in a well-formed JSON-RPC response; no
\* exception escapes handleMCP.
C2_NoExceptionEscapes ==
  \A s \in Slots :
    (pc[s] = "done" /\ request[s].method = "POST" /\ request[s].mcpPath)
      => (response[s].kind = "json"
          /\ (IsErrorEnvelope(response[s]) \/ IsSuccess(response[s])))

\* The capability handler invoked for the request of slot s was one of kind cap.
Invoked(s, cap) == invoked[s] # <<>> /\ invoked[s][1].cap = cap

\* The request of slot s is a call of method segs that has been answered.
Answered(s, segs) == pc[s] = "done" /\ IsRpc(s) /\ MethodOf(s) = segs

ResultOf(s) == response[s].body.result

\* An exception that carries a message.
HasMessage(v) ==
  v.t \in {"Error", "MCPError", "ToolError"} /\ v.message \notin {"", "undefined"}

\* C3: when the handler of a tool throws, whatever it throws, tools/call
\* ends in a success envelope whose result has isError:true and one text
\* block, which carries the exception's message when it has one; it never
\* ends in a protocol-level error.
C3_ToolThrowIsErrorResult ==
  \A s \in Slots :
    (pc[s] = "done" /\ Invoked(s, "tool") /\ settled[s].k = "throw")
      => /\ IsSuccess(response[s])
         /\ ResultOf(s).isError
         /\ Len(ResultOf(s).content) = 1
         /\ ResultOf(s).content[1].type = "text"
         /\ HasMessage(settled[s].v)
              => ResultOf(s).content[1].text = Text(settled[s].v.message)

C3_Witness ==
  \E s \in Slots :
    /\ pc[s] = "done" /\ Invoked(s, "tool")
    /\ settled[s] = Throw(Error("boom"))
    /\ IsSuccess(response[s])
    /\ ResultOf(s).isError
    /\ ResultOf(s).content = <<TextBlock(Text("boom"))>>

\* C4: when a tool, prompt or resource handler returns or throws a protocol
\* error, the response carries exactly that error's code, message and data.
C4_HandlerErrorPassesThrough ==
  \A s \in Slots :
    (pc[s] = "done" /\ invoked[s] # <<>> /\ settled[s].k \in {"return", "throw"}
       /\ isMCPError(settled[s].v))
      => response[s] = errorResponse(settled[s].v, sessionId[s])

\* The tool a tools/call request names, undefined when there is none.
ToolOf(s) == Lookup(server.tools, request[s].body.params.name)

\* C5: tools/call with arguments that violate the tool's input schema is
\* answered with an INVALID_PARAMS error, or with the protocol error the
\* validator raised, as raised; never with an INTERNAL_ERROR.
C5_InvalidInputIsInvalidParams ==
  \A s \in Slots :
    (Answered(s, <<"tools", "call">>)
       /\ request[s].body.params.t = "object"
       /\ ToolOf(s) # Undefined
       /\ ToolOf(s).schema # NoSchema
       /\ request[s].body.params.arguments = "bad")
      => LET raised == validateInput(ToolOf(s).schema, "bad").v IN
         /\ ~IsErrorOf(response[s], "INTERNAL_ERROR")
         /\ IF isMCPError(raised)
            THEN response[s] = errorResponse(raised, sessionId[s])
            ELSE response[s] = errorResponse(mcpError("INVALID_PARAMS"), sessionId[s])

C5_Witness ==
  \E s \in Slots :
    /\ Answered(s, <<"tools", "call">>)
    /\ request[s].body.params.t = "object"
    /\ request[s].body.params.name = "greet"
    /\ request[s].body.params.arguments = "bad"
    /\ ToolOf(s) # Undefined
    /\ IsErrorOf(response[s], "INVALID_PARAMS")

\* C6: when a tool handler returns the value the payload's resource
\* constructor built, the tools/call result has a resource_link content
\* block with that uri, name and mimeType.
C6_ResourceLinkBlock ==
  \A s \in Slots :
    (pc[s] = "done" /\ Invoked(s, "tool") /\ settled[s].k = "return"
       /\ settled[s].v.t = "ResourceResult")
      => /\ IsSuccess(response[s])
         /\ \E i \in 1..Len(ResultOf(s).content) :
              ResultOf(s).content[i] = settled[s].v.result.content[1]

\* The metadata the handler's own result carries: the _meta of a blob result.
HandlerMeta(s) ==
  IF settled[s].k = "return" /\ settled[s].v.t = "BlobResult" /\ settled[s].v.hasMeta
  THEN settled[s].v._meta ELSE EmptyMeta

OwnMeta(config) == IF config.hasMeta THEN config.meta ELSE EmptyMeta
WidgetMeta(config) ==
  IF config.widget # NoWidget THEN toolMetadata(config.widget) ELSE EmptyMeta

\* A tools/call request of slot s was answered with a result of its tool.
ToolAnswered(s) ==
  /\ Answered(s, <<"tools", "call">>)
  /\ IsSuccess(response[s])
  /\ request[s].body.params.t = "object"
  /\ ToolOf(s) # Undefined

\* The tools/list request of slot s was answered with the descriptors.
ToolsListed(s) == Answered(s, <<"tools", "list">>) /\ IsSuccess(response[s])

\* C7 as stated: every key of a tool's own metadata is in the metadata of
\* every tools/call result of the tool and of its tools/list descriptor.
C7_OwnMetaInResultAndDescriptor ==
  \A s \in Slots : \A k \in MetaKeys :
    /\ ToolAnswered(s) /\ OwnMeta(ToolOf(s))[k] # Absent
         => ResultOf(s).hasMeta /\ ResultOf(s)._meta[k] # Absent
    /\ ToolsListed(s)
         => \A i \in 1..Len(server.tools.entries) :
              OwnMeta(server.tools.entries[i][2])[k] # Absent
                => ResultOf(s).tools[i]._meta[k] # Absent

\* C7 amended: a tool's own metadata is merged into its tools/list
\* descriptor only; the metadata of a tools/call result is made of the
\* handler result's metadata and of the linked widget's tool metadata, and
\* the tool's own metadata has no part in it.
C7_OwnMetaInDescriptorOnly ==
  \A s \in Slots : \A k \in MetaKeys :
    /\ ToolAnswered(s)
         => ResultOf(s)._meta[k] =
              IF WidgetMeta(ToolOf(s))[k] # Absent THEN WidgetMeta(ToolOf(s))[k]
              ELSE HandlerMeta(s)[k]
    /\ ToolsListed(s)
         => \A i \in 1..Len(server.tools.entries) :
              LET config == server.tools.entries[i][2] IN
              ResultOf(s).tools[i]._meta[k] =
                IF WidgetMeta(config)[k] # Absent THEN WidgetMeta(config)[k]
                ELSE OwnMeta(config)[k]

C7_Witness ==
  \E s \in Slots :
    /\ ToolAnswered(s)
    /\ request[s].body.params.name = "greet"
    /\ OwnMeta(ToolOf(s))["version"] = <<"1.0">>
    /\ settled[s] = Return(Str("Hello Ada"))
    /\ ~ResultOf(s).hasMeta
    /\ ResultOf(s)._meta["version"] = Absent

\* C8: for a tool linked to a widget with id X, _meta["openai/outputTemplate"]
\* is "widget://X.js" in the tool's tools/list descriptor and in every
\* tools/call result of the tool, results with isError:true included.
C8_OutputTemplateEverywhere ==
  \A s \in Slots :
    /\ (ToolAnswered(s) /\ ToolOf(s).widget # NoWidget)
         => /\ ResultOf(s).hasMeta
            /\ ResultOf(s)._meta["openai/outputTemplate"] =
                 WidgetScheme \o ToolOf(s).widget.id \o <<".", "j", "s">>
    /\ ToolsListed(s)
         => \A i \in 1..Len(server.tools.entries) :
              LET config == server.tools.entries[i][2] IN
              config.widget # NoWidget
                => /\ ResultOf(s).tools[i].name = server.tools.entries[i][1]
                   /\ ResultOf(s).tools[i]._meta["openai/outputTemplate"] =
                        WidgetScheme \o config.widget.id \o <<".", "j", "s">>

C8_Witness ==
  \E s \in Slots :
    /\ ToolAnswered(s)
    /\ request[s].body.params.name = "show"
    /\ settled[s] = Throw(Error("boom"))
    /\ ResultOf(s).isError
    /\ ResultOf(s)._meta["openai/outputTemplate"] =
         <<"w", "i", "d", "g", "e", "t", ":", "/", "/", "a", ".", "j", "s">>

\* C9: a key that is both in the tool's own metadata, or in the metadata of
\* the handler's result, and in the linked widget's tool metadata appears
\* with the widget's value, in the descriptor and in the result.
C9_WidgetMetaWins ==
  \A s \in Slots : \A k \in MetaKeys :
    /\ (ToolAnswered(s) /\ WidgetMeta(ToolOf(s))[k] # Absent
          /\ (OwnMeta(ToolOf(s))[k] # Absent \/ HandlerMeta(s)[k] # Absent))
         => ResultOf(s)._meta[k] = WidgetMeta(ToolOf(s))[k]
    /\ ToolsListed(s)
         => \A i \in 1..Len(server.tools.entries) :
              LET config == server.tools.entries[i][2] IN
              (WidgetMeta(config)[k] # Absent /\ OwnMeta(config)[k] # Absent)
                => ResultOf(s).tools[i]._meta[k] = WidgetMeta(config)[k]

C9_Witness ==
  \E s \in Slots :
    /\ ToolAnswered(s)
    /\ request[s].body.params.name = "show"
    /\ HandlerMeta(s)["openai/widgetAccessible"] = <<"true">>
    /\ OwnMeta(ToolOf(s))["openai/outputTemplate"] = <<"own">>
    /\ ResultOf(s)._meta["openai/widgetAccessible"] = <<"false">>
    /\ ResultOf(s)._meta["openai/outputTemplate"] = WidgetUri(<<"a">>)

\* A registry with no entry, or no registry at all.
EmptyRegistry(registry) == ~registry.present \/ registry.entries = <<>>

\* The registry that governs the method of slot s is empty.
GatedOut(s) ==
  /\ IsRpc(s)
  /\ \/ /\ MethodOf(s) \in {<<"tools", "list">>, <<"tools", "call">>}
        /\ EmptyRegistry(server.tools)
     \/ /\ MethodOf(s) \in {<<"prompts", "list">>, <<"prompts", "get">>}
        /\ EmptyRegistry(server.prompts)
     \/ /\ MethodOf(s) = <<"resources", "templates", "list">>
        /\ EmptyRegistry(server.resources)
     \/ /\ MethodOf(s) \in {<<"resources", "list">>, <<"resources", "read">>}
        /\ EmptyRegistry(server.resources)
        /\ EmptyRegistry(server.widgets)

\* C10: a method whose governing registry is empty is answered with
\* METHOD_NOT_FOUND: no list is returned and no capability handler is
\* invoked or waited on.
C10_EmptyRegistryGated ==
  \A s \in Slots :
    GatedOut(s)
      => /\ invoked[s] = <<>>
         /\ call[s] = NoCall
         /\ pc[s] \in {"received", "parsed", "done"}
         /\ pc[s] = "done"
              => response[s] = errorResponse(mcpError("METHOD_NOT_FOUND"),
                                             sessionId[s])

C10_Witness ==
  \E s \in Slots :
    /\ Answered(s, <<"resources", "templates", "list">>)
    /\ server.resources.entries = <<>>
    /\ server.widgets.entries # <<>>
    /\ IsErrorOf(response[s], "METHOD_NOT_FOUND")

\* C11: the initialize result reports the tools capability exactly when the
\* tool registry is non-empty, the prompts capability exactly when the
\* prompt registry is non-empty, and the resources capability exactly when
\* the resource registry or the widget registry is non-empty.
C11_CapabilitiesMatchRegistries ==
  \A s \in Slots :
    Answered(s, <<"initialize">>)
      => /\ IsSuccess(response[s])
         /\ ("tools" \in ResultOf(s).capabilities)
              <=> ~EmptyRegistry(server.tools)
         /\ ("prompts" \in ResultOf(s).capabilities)
              <=> ~EmptyRegistry(server.prompts)
         /\ ("resources" \in ResultOf(s).capabilities)
              <=> (~EmptyRegistry(server.resources) \/ ~EmptyRegistry(server.widgets))
         /\ ResultOf(s).capabilities \subseteq {"tools", "prompts", "resources"}

C11_Witness ==
  \E s \in Slots :
    /\ Answered(s, <<"initialize">>)
    /\ EmptyRegistry(server.tools)
    /\ EmptyRegistry(server.resources)
    /\ ~EmptyRegistry(server.widgets)
    /\ ~EmptyRegistry(server.prompts)
    /\ ResultOf(s).capabilities = {"resources", "prompts"}

\* The uri a resources/read request of slot s asks for.
ReadUri(s) == request[s].body.params.uri

\* The request of slot s is a resources/read that names a uri.
IsRead(s) ==
  /\ IsRpc(s)
  /\ MethodOf(s) = <<"resources", "read">>
  /\ request[s].body.params.t = "object"
  /\ ReadUri(s) # NoUri

\* C12: for every registered widget with id X, resources/read of
\* "widget://X.js" is answered with a result, every content of which has the
\* MIME type text/html+skybridge.
C12_WidgetReadRoundTrip ==
  \A s \in Slots : \A i \in 1..Len(EntriesOf(server.widgets)) :
    (pc[s] = "done" /\ IsRead(s)
       /\ ReadUri(s) = WidgetUri(EntriesOf(server.widgets)[i][2].id))
      => /\ IsSuccess(response[s])
         /\ ResultOf(s).contents # <<>>
         /\ \A c \in 1..Len(ResultOf(s).contents) :
              ResultOf(s).contents[c].mimeType = SkybridgeMime

C12_Witness ==
  \E s \in Slots :
    /\ pc[s] = "done" /\ IsRead(s)
    /\ Len(EntriesOf(server.widgets)) = 2
    /\ ReadUri(s) = WidgetUri(<<"a">>)
    /\ IsSuccess(response[s])
    /\ ResultOf(s).contents[1].mimeType = Mime("text", "html+skybridge")

\* The request of slot s reads a uri that is not a widget's.
IsResourceRead(s) == IsRead(s) /\ ~StartsWith(ReadUri(s), WidgetScheme)

\* The registered resources, by position: those whose declared uri is uri,
\* and those whose declared uri is a template.
DeclaredAs(uri) ==
  {i \in 1..Len(EntriesOf(server.resources)) :
     EntriesOf(server.resources)[i][2].uri = uri}

DeclaredTemplates ==
  {i \in 1..Len(EntriesOf(server.resources)) :
     /\ EntriesOf(server.resources)[i][2].uri # NoUri
     /\ isTemplate(EntriesOf(server.resources)[i][2].uri)}

\* The handler of the resource at position i, and no other, was invoked
\* for the request of slot s, with the uri asked for.
ResolvedTo(s, i) ==
  /\ Len(invoked[s]) = 1
  /\ invoked[s][1].cap = "resource"
  /\ invoked[s][1].key = EntriesOf(server.resources)[i][1]
  /\ invoked[s][1].input = ReadUri(s)

\* The resource a read of a non-widget uri resolves to when there is one.
ReadsExpected(s) ==
  /\ DeclaredAs(ReadUri(s)) # {}
       => \E i \in DeclaredAs(ReadUri(s)) : ResolvedTo(s, i)
  /\ (DeclaredAs(ReadUri(s)) = {} /\ DeclaredTemplates # {})
       => \E i \in DeclaredTemplates :
            /\ \A j \in DeclaredTemplates : i <= j
            /\ ResolvedTo(s, i)

\* C13 as stated: a read of a non-widget uri resolves to the resource
\* declared with that uri, else to the first resource declared with a
\* template; with neither, the answer is RESOURCE_NOT_FOUND and no handler
\* is invoked.
C13_ReadResolution ==
  \A s \in Slots :
    (pc[s] = "done" /\ IsResourceRead(s))
      => /\ ReadsExpected(s)
         /\ (DeclaredAs(ReadUri(s)) = {} /\ DeclaredTemplates = {})
              => /\ invoked[s] = <<>>
                 /\ response[s] = errorResponse(mcpError("RESOURCE_NOT_FOUND"),
                                                sessionId[s])

\* C13 amended: as stated, except that with neither resource the answer is
\* RESOURCE_NOT_FOUND only when the resource or the widget registry is
\* non-empty, and METHOD_NOT_FOUND when both are empty.
C13_ReadResolutionGated ==
  \A s \in Slots :
    (pc[s] = "done" /\ IsResourceRead(s))
      => /\ ReadsExpected(s)
         /\ (DeclaredAs(ReadUri(s)) = {} /\ DeclaredTemplates = {})
              => /\ invoked[s] = <<>>
                 /\ response[s] =
                      errorResponse(
                        mcpError(IF EmptyRegistry(server.resources)
                                    /\ EmptyRegistry(server.widgets)
                                 THEN "METHOD_NOT_FOUND"
                                 ELSE "RESOURCE_NOT_FOUND"),
                        sessionId[s])

C13_Witness ==
  \E s \in Slots :
    /\ pc[s] = "done" /\ IsResourceRead(s)
    /\ ReadUri(s) = <<"f", ":", "p">>
    /\ Len(EntriesOf(server.resources)) >= 2
    /\ 1 \in DeclaredTemplates
    /\ DeclaredAs(ReadUri(s)) = {2}
    /\ ResolvedTo(s, 2)

\* The names under which a listing lists, and how often it lists name.
TimesListed(list, name) == Cardinality({j \in 1..Len(list) : list[j].name = name})

\* The resource at position i is declared with a template.
IsDeclaredTemplate(i) == i \in DeclaredTemplates

\* C14: a resource declared with a template is listed once by
\* resources/templates/list and not by resources/list; every other resource,
\* one without declared uri included, is listed once by resources/list and
\* not by resources/templates/list.
C14_ListingPartition ==
  \A s \in Slots : \A i \in 1..Len(EntriesOf(server.resources)) :
    LET name == EntriesOf(server.resources)[i][1] IN
    /\ Answered(s, <<"resources", "list">>)
         => /\ IsSuccess(response[s])
            /\ TimesListed(ResultOf(s).resources, name) =
                 IF IsDeclaredTemplate(i) THEN 0 ELSE 1
    /\ Answered(s, <<"resources", "templates", "list">>)
         => /\ IsSuccess(response[s])
            /\ TimesListed(ResultOf(s).resourceTemplates, name) =
                 IF IsDeclaredTemplate(i) THEN 1 ELSE 0

C14_Witness ==
  \E s \in Slots :
    /\ Answered(s, <<"resources", "list">>)
    /\ Len(EntriesOf(server.resources)) = 3
    /\ IsDeclaredTemplate(1) /\ ~IsDeclaredTemplate(2) /\ ~IsDeclaredTemplate(3)
    /\ EntriesOf(server.resources)[3][2].uri = NoUri
    /\ Len(ResultOf(s).resources) = 2
    /\ ResultOf(s).resources[2].uri = EntriesOf(server.resources)[3][1]

\* C15: what a resource read yields follows the shape of what the handler
\* returned: a string yields one text content with the declared MIME type; a
\* binary value yields a data URL when a MIME type is declared and
\* INTERNAL_ERROR when none is; any other value yields RESOURCE_NOT_FOUND.
C15_ReadShapes ==
  \A s \in Slots :
    (pc[s] = "done" /\ Invoked(s, "resource") /\ settled[s].k = "return")
      => LET v == settled[s].v
             type == Lookup(server.resources, invoked[s][1].key).type
         IN CASE v.t = "string" ->
                   /\ IsSuccess(response[s])
                   /\ ResultOf(s).contents =
                        <<[text |-> Text(v.s), mimeType |-> type,
                           uri |-> ReadUri(s)]>>
              [] v.t \in {"Blob", "File", "ArrayBuffer", "Uint8Array"} ->
                   IF type = NoMime
                   THEN IsErrorOf(response[s], "INTERNAL_ERROR")
                   ELSE /\ IsSuccess(response[s])
                        /\ ResultOf(s).contents =
                             <<[text |-> [dataUrl |-> [mimeType |-> type,
                                                       bytes |-> v]],
                                mimeType |-> type, uri |-> ReadUri(s)]>>
              [] OTHER ->
                   response[s] = errorResponse(mcpError("RESOURCE_NOT_FOUND"),
                                               sessionId[s])

C15_Witness ==
  \E s \in Slots :
    /\ pc[s] = "done" /\ Invoked(s, "resource")
    /\ settled[s] = Return(Binary("Blob"))
    /\ Lookup(server.resources, invoked[s][1].key).type = NoMime
    /\ IsErrorOf(response[s], "INTERNAL_ERROR")
    /\ response[s].body.error.message = "Resource mimeType not set"

\* C16: every response to a request to the /mcp endpoint carries an
\* Mcp-Session-Id header, which has the value of the request's header when
\* the request had one: success, error and method-not-allowed responses
\* alike.
C16_SessionHeaderEchoed ==
  \A s \in Slots :
    (pc[s] = "done" /\ request[s].mcpPath /\ response[s].kind = "json")
      => /\ response[s].headers.mcpSessionId # NoHeader
         /\ request[s].sessionHeader # NoHeader
              => response[s].headers.mcpSessionId = request[s].sessionHeader

\* C17: a success response carries the id of the request it answers, and
\* an error response carries id null whatever the id of the request.
C17_IdOfEnvelopes ==
  \A s \in Slots :
    (pc[s] = "done" /\ response[s].kind = "json")
      => /\ IsSuccess(response[s])
              => /\ IsRpc(s)
                 /\ response[s].body.id = request[s].body.id
         /\ IsErrorEnvelope(response[s]) => response[s].body.id = "null"

C17_Witness ==
  \E s \in Slots :
    /\ Answered(s, <<"tools", "call">>)
    /\ request[s].body.id = "2"
    /\ IsErrorOf(response[s], "METHOD_NOT_FOUND")
    /\ response[s].body.id = "null"

\* Two requests in flight that are the same request, under the same
\* session id, with handlers that settled the same way.
SameInputs(s, t) ==
  /\ pc[s] = "done" /\ pc[t] = "done"
  /\ request[s] = request[t]
  /\ sessionId[s] = sessionId[t]
  /\ settled[s] = settled[t]

\* C18: no step of the dispatcher changes the registries, and the response
\* to a request, given its session id and the way its handler settles, is
\* the same whatever was handled before it or is handled along with it.
C18_Stateless ==
  /\ [][server' = server]_vars
  /\ [](\A s \in ConcurrentSlots : \A t \in ConcurrentSlots :
          SameInputs(s, t) => response[s] = response[t])

C18_Witness ==
  /\ SameInputs("r1", "r2")
  /\ request["r1"].body.method.segs = <<"tools", "call">>
  /\ invoked["r1"] # <<>>
  /\ settled["r1"] = Return(Str("Hello Ada"))
  /\ IsSuccess(response["r1"])
  /\ response["r1"] = response["r2"]

\* C19: for one request at most one capability handler is invoked, once;
\* there is no response while the handler, or the binary result it
\* returned, is still pending, and the response to a binary result holds
\* the resolved content.
C19_OneInvocationAwaited ==
  \A s \in Slots :
    /\ Len(invoked[s]) <= 1
    /\ pc[s] \in {"validating", "calling", "resolving"}
         => response[s] = NoResponse
    /\ (pc[s] = "done" /\ invoked[s] # <<>>) => settled[s] # NoOutcome
    /\ (pc[s] = "done" /\ Invoked(s, "tool") /\ settled[s].k = "return"
          /\ settled[s].v.t = "BlobResult")
         => /\ IsSuccess(response[s])
            /\ ResultOf(s).t = "CallToolResult"
            /\ ResultOf(s).content = BlobResultResolved(settled[s].v).content

C19_Witness ==
  \E s \in Slots :
    /\ pc[s] = "done" /\ Invoked(s, "tool")
    /\ settled[s].k = "return" /\ settled[s].v.t = "BlobResult"
    /\ Len(invoked[s]) = 1
    /\ ResultOf(s).content[1].type = "audio"

\* The value given in an assignment is the value the property already has:
\* the same primitive, or the object the property holds, whether the caller
\* holds it as such or as it reads through the proxy.
SameAsHeld(op) ==
  IF IsObject(op.given.v) THEN op.given.ref \in {"proxy", "raw"}
  ELSE op.held = op.given.v

\* The calls of the save callback an operation is due.
SavesDue(op) ==
  CASE op.kind = "set" -> IF SameAsHeld(op) THEN 0 ELSE 1
    [] op.kind = "delete" -> IF op.had THEN 1 ELSE 0
    [] op.kind = "call" ->
         IF op.method \in {"push", "pop", "shift", "unshift", "splice",
                           "reverse", "sort", "fill", "copyWithin"}
         THEN 1 ELSE 0
    [] op.kind = "replace" -> 1
    [] op.kind = "globals" -> 0

\* C20: through the proxy, at any depth, assigning a property a different
\* value, deleting a property that exists and calling a mutating array
\* method each call the save callback once; assigning a property the value
\* it has, deleting a property that does not exist and calling a
\* non-mutating array method do not call it.
C20_SaveOncePerMutation ==
  widgetState.op.kind # "none"
    => widgetState.saves = SavesDue(widgetState.op)

\* C21: after the whole widget state is replaced through the state setter,
\* reads through the proxy return the values of the new state, and a
\* mutation made afterwards through the proxy changes the new state and
\* saves it: what the proxy reads is the state that was set, and what a
\* later mutation saves is what the proxy then reads.
C21_ProxyFollowsReplacement ==
  /\ widgetState.op.kind = "replace"
       => widgetState.proxied = widgetState.op.value
  /\ (~widgetState.aliased /\ widgetState.op.kind \in {"set", "delete", "call"}
        /\ widgetState.saves > 0)
       => /\ widgetState.value = widgetState.proxied
          /\ widgetState.saved = widgetState.proxied

\* The fields of ~config a builder call may write.
OwnFields(op) ==
  CASE op = "uri" -> {"uri"}
    [] op = "type" -> {"type"}
    [] op = "meta" -> {"meta"}
    [] op = "handle" -> {"hasHandler"}
    [] op = "description" -> {"description"}
    [] OTHER -> {}

\* C22: the string passed to resource(...) is stored as the description in
\* ~config, and each of uri, type, meta and handle sets its own field of
\* ~config and leaves the description and every other field as it was.
C22_DescriptionAndFrame ==
  /\ building.op = "resource" => building.config.description = building.arg.s
  /\ building.op \in {"uri", "type", "meta", "handle"}
       => \A f \in DOMAIN building.config \ OwnFields(building.op) :
            building.config[f] = building.before[f]

\* The tool handler of slot s returned v and the call was answered.
ToolReturned(s) ==
  /\ pc[s] = "done" /\ Invoked(s, "tool") /\ settled[s].k = "return"
  /\ IsSuccess(response[s])

\* C23: when a tool handler returns a string s, the result's content is
\* the one text block with text s, with no isError and no
\* structuredContent; when it returns any other value that is neither the
\* error nor the binary sentinel, the content is the one text block holding
\* the value's stringification, and structuredContent is there, equal to
\* the value, exactly when the tool declared an output schema.
C23_OrdinaryReturnShape ==
  \A s \in Slots :
    ToolReturned(s) =>
      LET v == settled[s].v
          r == ResultOf(s)
      IN /\ v.t = "string"
              => /\ r.content = <<TextBlock(Text(v.s))>>
                 /\ ~r.isError
                 /\ ~r.hasStructured
         /\ v.t \notin {"string", "ToolError", "BlobResult"}
              => /\ r.content = <<TextBlock(safeStringify(v))>>
                 /\ r.hasStructured = ToolOf(s).output
                 /\ r.hasStructured => r.structuredContent = v

C23_Witness ==
  \E s \in Slots :
    /\ ToolReturned(s)
    /\ settled[s].v = Obj("o1")
    /\ ToolOf(s).output
    /\ ResultOf(s).hasStructured /\ ResultOf(s).structuredContent = Obj("o1")

\* The resources resources/list describes, as registry entries.
ListedResources ==
  IF hasResources(server) THEN SelectEntries(EntriesOf(server.resources), FALSE)
  ELSE <<>>

\* The read of slot s was answered by the resource registered under key.
ReadAnsweredBy(s, key) ==
  /\ Len(invoked[s]) = 1
  /\ invoked[s][1].cap = "resource"
  /\ invoked[s][1].key = key

\* The read of slot s was answered by widget w.
ReadAnsweredByWidget(s, w) ==
  /\ IsSuccess(response[s])
  /\ ResultOf(s) = WidgetResult(w, Origin)

\* C24: for every descriptor resources/list returns, of a resource or of a
\* widget, resources/read of the descriptor's uri is answered by the
\* resource or widget described, not by another entry and not by
\* RESOURCE_NOT_FOUND; resources registered without a uri and widgets whose
\* id is part of another widget's id included.
C24_ListedUriReadsListed ==
  \A s \in Slots :
    (pc[s] = "done" /\ IsRead(s))
      => /\ \A j \in 1..Len(ListedResources) :
              defineResource(ListedResources[j][1], ListedResources[j][2]).uri
                  = ReadUri(s)
                => ReadAnsweredBy(s, ListedResources[j][1])
         /\ \A k \in 1..Len(EntriesOf(server.widgets)) :
              defineWidgets(EntriesOf(server.widgets), Origin)[k].uri = ReadUri(s)
                => ReadAnsweredByWidget(s, EntriesOf(server.widgets)[k][2])

\* The capability whose registry governs a listing method.
CapabilityOf(segs) ==
  CASE segs = <<"tools", "list">> -> "tools"
    [] segs = <<"prompts", "list">> -> "prompts"
    [] segs \in {<<"resources", "list">>, <<"resources", "templates", "list">>}
         -> "resources"
    [] OTHER -> "none"

\* C25: on a server whose initialize result reports a capability, none of
\* the capability's listing methods (tools/list; prompts/list;
\* resources/list and resources/templates/list) answers METHOD_NOT_FOUND, a
\* server with widgets and no resources included.
C25_AdvertisedIsListable ==
  \A s \in Slots :
    (pc[s] = "done" /\ IsRpc(s)
       /\ CapabilityOf(MethodOf(s)) \in initialize(server).v.capabilities)
      => ~IsErrorOf(response[s], "METHOD_NOT_FOUND")

\* C26: every content entry of a successful resources/read result has as
\* its uri the uri that was asked for, whether a plain resource, a template
\* resource or a widget answered.
C26_ContentUriIsRequestedUri ==
  \A s \in Slots :
    (pc[s] = "done" /\ IsRead(s) /\ IsSuccess(response[s]))
      => \A c \in 1..Len(ResultOf(s).contents) :
           ResultOf(s).contents[c].uri = ReadUri(s)

\* The prompt a prompts/get request of slot s names.
PromptOf(s) == Lookup(server.prompts, request[s].body.params.name)

\* The record of the capability invocation inv was made on.
InvokedConfig(inv) ==
  Lookup(IF inv.cap = "tool" THEN server.tools ELSE server.prompts, inv.key)

\* C27: in tools/call and prompts/get the capability handler is invoked
\* only once the validation of the arguments has completed with success,
\* and is given the validator's output; while the validation is pending,
\* and when it fails, no handler is invoked for the request.
C27_ValidateBeforeInvoke ==
  \A s \in Slots :
    /\ pc[s] \in {"received", "parsed", "validating"} => invoked[s] = <<>>
    /\ \A i \in 1..Len(invoked[s]) :
         invoked[s][i].cap \in {"tool", "prompt"}
           => LET validated == Validate(InvokedConfig(invoked[s][i]),
                                        request[s].body.params.arguments)
              IN /\ validated.k = "return"
                 /\ invoked[s][i].input = validated.v
    /\ (pc[s] = "done" /\ IsRpc(s) /\ request[s].body.params.t = "object"
          /\ \/ /\ MethodOf(s) = <<"tools", "call">> /\ ToolOf(s) # Undefined
                /\ Validate(ToolOf(s), request[s].body.params.arguments).k = "throw"
             \/ /\ MethodOf(s) = <<"prompts", "get">> /\ PromptOf(s) # Undefined
                /\ Validate(PromptOf(s), request[s].body.params.arguments).k = "throw")
         => invoked[s] = <<>>

C27_Witness ==
  \E s \in Slots :
    /\ pc[s] = "done" /\ IsRpc(s)
    /\ MethodOf(s) = <<"prompts", "get">>
    /\ Len(invoked[s]) = 1
    /\ request[s].body.params.arguments = "good"
    /\ PromptOf(s).schema # NoSchema
    /\ invoked[s][1].cap = "prompt"
    /\ invoked[s][1].input = Obj("validated")

\* C28: prompts/get with arguments that fail the validation of the prompt's
\* schema is answered with an INTERNAL_ERROR, not with INVALID_PARAMS,
\* unless the validator raised a protocol error, which is the answer as
\* raised.
C28_PromptValidationIsInternalError ==
  \A s \in Slots :
    (Answered(s, <<"prompts", "get">>)
       /\ request[s].body.params.t = "object"
       /\ PromptOf(s) # Undefined
       /\ Validate(PromptOf(s), request[s].body.params.arguments).k = "throw")
      => LET raised == Validate(PromptOf(s), request[s].body.params.arguments).v
         IN response[s] = errorResponse(IF isMCPError(raised) THEN raised
                                        ELSE mcpError("INTERNAL_ERROR"),
                                        sessionId[s])

C28_Witness ==
  \E s \in Slots :
    /\ Answered(s, <<"prompts", "get">>)
    /\ request[s].body.params.t = "object"
    /\ request[s].body.params.name = "ask"
    /\ request[s].body.params.arguments = "bad"
    /\ PromptOf(s) # Undefined
    /\ IsErrorOf(response[s], "INTERNAL_ERROR")

\* id is the session identifier of the request of slot s: the one its
\* Mcp-Session-Id header names, or one made for it when it names none.
OwnSessionId(s, id) ==
  IF request[s].sessionHeader \in {NoHeader, ""} THEN id \in UUIDs
  ELSE id = request[s].sessionHeader

\* C29: with requests of different session identifiers in flight at once,
\* interleaved at their awaits, every capability handler is given, and
\* every response carries in its Mcp-Session-Id header, the identifier of
\* its own request, never that of another.
C29_SessionIsolation ==
  \A s \in ConcurrentSlots :
    /\ \A i \in 1..Len(invoked[s]) : OwnSessionId(s, invoked[s][i].sessionId)
    /\ pc[s] = "done" => OwnSessionId(s, response[s].headers.mcpSessionId)

C29_Witness ==
  /\ pc["r1"] = "done" /\ pc["r2"] = "done"
  /\ request["r1"].sessionHeader = "s1"
  /\ request["r2"].sessionHeader = NoHeader
  /\ Len(invoked["r1"]) = 1 /\ Len(invoked["r2"]) = 1
  /\ invoked["r1"][1].sessionId = "s1"
  /\ invoked["r2"][1].sessionId \in UUIDs
  /\ response["r1"].headers.mcpSessionId = "s1"
  /\ response["r2"].headers.mcpSessionId \in UUIDs

\* The bundles in the static directory that were compiled from file.
BundlesOf(file) ==
  {n \in OutputNames :
     /\ plugin.static.bundles[n] # NoFile
     /\ plugin.static.bundles[n].file = file}

\* C30: in dev mode a hot update stores the recompiled component of a
\* source file under the component name buildStart gives that file, and
\* writes it to the output file buildStart writes, whatever valid name the
\* file has; so after any sequence of buildStart and hot updates every
\* compiled source file has one bundle in the static directory, the latest
\* compilation.
C30_HotUpdateKeepsBundle ==
  \A i \in 1..Len(plugin.mcpComponents) :
    LET file == plugin.mcpComponents[i][1]
        component == plugin.mcpComponents[i][2]
    IN file \in plugin.built
         => /\ file \in plugin.hot
                 => component.name = toKebabCase(rawComponentName(file))
            /\ BundlesOf(file) = {component.name}
            /\ plugin.static.bundles[component.name] = component.code

====
